---- MODULE Spec2Model ----
(***************************************************************************)
(* A model of mobile-media-streaming (rust/src/api): the MoQ core of       *)
(* moq_protocol.rs (TrackStore, PriorityScheduler, NamespaceManager), the  *)
(* Live actor of live_protocol.rs, the broadcast subscription of           *)
(* subscribe_broadcast.rs, the event path of direct_streaming.rs, the      *)
(* viewer of subscribe.rs, the publisher and catalog of publish.rs, the    *)
(* track writers of publish_broadcast.rs and the tickets and connection    *)
(* statistics of live_streaming.rs.                                        *)
(*                                                                         *)
(* Option<T> values are modelled as sequences of length at most one:       *)
(* None is <<>> and Some(v) is <<v>>.  HashMaps are functions whose        *)
(* DOMAIN is the set of keys present.                                      *)
(***************************************************************************)
EXTENDS Naturals, Integers, Sequences, FiniteSets, TLC

None == <<>>
Some(v) == <<v>>

\* HashMap::insert / HashMap::remove on a map modelled as a function.
Put(f, k, v) == [x \in (DOMAIN f) \cup {k} |-> IF x = k THEN v ELSE f[x]]
Remove(f, k) == [x \in (DOMAIN f) \ {k} |-> f[x]]
EmptyMap == [x \in {} |-> 0]
Range(s) == {s[i] : i \in DOMAIN s}

(***************************************************************************)
(* Bounds of the model.                                                    *)
(***************************************************************************)
\* TrackStore::new(_, max_groups): groups retained per track.
MaxGroups == 2
\* start_group is called at most MaxStarts times on a track (the u64
\* counters stay far from wrapping).
MaxStarts == 3
\* a group's object counter is driven up to MaxObjId at most.
MaxObjId == 2
\* PriorityScheduler::new(max_queue_size)
MaxQueueSize == 2
\* the wall clock runs from 0 to MaxTime.
MaxTime == 2
\* mpsc::channel(16) of the Live actor, in small.
InboxCapacity == 1
\* the connections accepted in one run.
MaxSessions == 2
\* SubscribeConfig.buffer_size (64 by default), in small.
BufferSize == 1
\* the frames a track reader reads in one run.
MaxFrames == 2
\* the messages a peer sends on one connection.
MaxMessages == 2
\* catalog versions run from 0 to MaxVersion (the u32 stays far from wrapping).
MaxVersion == 3
\* set_video / set_audio calls on one publisher when the catalog channel is
\* filled: one more than the channel holds.
MaxCatalogChanges == 9
\* the packets sent to one viewer in one run.
MaxPackets == 2
\* the samples fed to one ConnectionStats in one run.
MaxUpdates == 3
\* TrackStore.max_retention, in ms of the wall clock.
MaxRetention == 1
\* the connections one peer makes to the direct endpoint.
MaxConnections == 2
\* A capacity the event queue of the direct endpoint is measured against.
EventCapacity == 3
\* The numbers of frames given to the video and to the audio writer.
MaxVideoFrames == 6
MaxAudioFrames == 41

(***************************************************************************)
(* Names.                                                                  *)
(***************************************************************************)
RECURSIVE JoinSlash(_)
\* Vec<String>::join("/")
JoinSlash(components) ==
    IF components = <<>> THEN ""
    ELSE IF Len(components) = 1 THEN components[1]
    ELSE components[1] \o "/" \o JoinSlash(Tail(components))

\* Namespace::to_string_path
ToStringPath(ns) == JoinSlash(ns)

RECURSIVE SplitSlash(_)
\* str::split('/'): the pieces between the slashes, empty pieces included
\* (the empty string gives one empty piece).
SplitSlash(str) ==
    IF \E i \in 1..Len(str) : SubSeq(str, i, i) = "/"
    THEN LET i == CHOOSE k \in 1..Len(str) :
                    /\ SubSeq(str, k, k) = "/"
                    /\ \A j \in 1..(k - 1) : SubSeq(str, j, j) # "/"
         IN <<SubSeq(str, 1, i - 1)>> \o SplitSlash(SubSeq(str, i + 1, Len(str)))
    ELSE <<str>>

\* Namespace::from_str
FromStr(str) == SplitSlash(str)

\* is_prefix_of without the length test: zip stops at the shorter list.
IsPrefixOfZipOnly(self, other) ==
    \A i \in 1..(IF Len(self) < Len(other) THEN Len(self) ELSE Len(other)) :
        self[i] = other[i]

\* Namespace::is_prefix_of
IsPrefixOf(self, other) ==
    IF Len(self) > Len(other) THEN FALSE
    ELSE \A i \in 1..(IF Len(self) < Len(other) THEN Len(self) ELSE Len(other)) :
             self[i] = other[i]

\* The namespace paths the callers pass to moq_announce_namespace,
\* moq_subscribe_namespace and moq_namespace_is_prefix.
NamespacePaths == {"a", "a/b", "a/b/c", "a/c", "b", ""}

\* FullTrackName::to_path
ToPath(t) ==
    IF t.namespace = <<>> THEN t.track_name
    ELSE ToStringPath(t.namespace) \o "/" \o t.track_name

\* The full track names the callers use.
TrackNames == { [namespace |-> <<"test">>, track_name |-> "video"] }

\* Group ids a caller may pass to add_object: ids of retained, of evicted
\* and of not yet started groups.
GroupIds == 0..(MaxStarts - 1)
\* Subgroup ids a caller may pass to add_object: two parallel lanes.
SubgroupIds == {0, 1}

(***************************************************************************)
(* Object model.                                                           *)
(***************************************************************************)
DefaultPriority == 128

\* MoqObject::new (payload, extensions, status and created_at are not
\* modelled: no operation of the store or the scheduler reads them).
NewObject(group_id, subgroup_id, object_id) ==
    [group_id |-> group_id, subgroup_id |-> subgroup_id, object_id |-> object_id,
     publisher_priority |-> DefaultPriority, expires_at |-> None]

\* MoqObject::is_expired, with the wall clock at t.
IsExpired(o, t) ==
    IF o.expires_at # None THEN t > o.expires_at[1] ELSE FALSE

\* MoqGroup::new, with the wall clock at created_at.
NewGroup(group_id, created_at) ==
    [group_id |-> group_id, subgroups |-> EmptyMap, is_complete |-> FALSE,
     created_at |-> created_at]

\* MoqGroup::add_object
GroupAddObject(g, obj) ==
    LET sub == IF obj.subgroup_id \in DOMAIN g.subgroups
               THEN g.subgroups[obj.subgroup_id] ELSE <<>>
    IN [g EXCEPT !.subgroups = Put(g.subgroups, obj.subgroup_id, Append(sub, obj))]

\* group.subgroups.values().flat_map(..): every object of a group.
GroupObjects(g) == UNION { Range(g.subgroups[s]) : s \in DOMAIN g.subgroups }

\* The (group_id, subgroup_id, object_id) triple of an object.
Triple(o) == <<o.group_id, o.subgroup_id, o.object_id>>

(***************************************************************************)
(* State.                                                                  *)
(***************************************************************************)
VARIABLES
    tracks,     \* TrackStore.tracks: path -> TrackData
    ret,        \* the last TrackStore call and what it returned
    started,    \* history: path -> the group ids start_group returned for the track
    watched,    \* history: path -> None, or Some(triple) of one object that an
                \* earlier add_object returned (sampled nondeterministically)
    pending,    \* PriorityScheduler.pending
    now,        \* the wall clock (SystemTime::now, in ms)
    out,        \* the last PriorityScheduler call and what it returned
    published,  \* NamespaceManager.published: path -> NamespaceAnnouncement
    announced,  \* history: the namespaces announced so far
    nsret,      \* the last namespace call and what it returned
    inbox,          \* the ActorMessages sent to the Live actor and not yet received
    broadcasts,     \* Actor.broadcasts: name -> producer
    sessions,       \* Actor.sessions: remote -> SessionState
    session_tasks,  \* Actor.session_tasks: session -> the task monitoring it
    shutdown_token, \* TRUE once the actor's shutdown_token is cancelled
    actor,          \* "running", or "stopped" once Actor::run is left or aborted
    next_session,   \* the number of connections accepted so far
    reader,         \* track -> the WatchTrack / AudioTrack task: where it is,
                    \* its frame_count and the frame it is sending
    output,         \* track -> the frames in the output channel
    frames_read,    \* history: track -> the data of the frames read, in order
    taken,          \* history: track -> the frames the handle received, in order
    tasks,          \* the JoinSet of run_subscriber: the tracks not yet joined
    subscriber,     \* "running", or "ended" once run_subscriber has returned
    cancel,         \* TRUE once the subscription's token is cancelled
    handle_open,    \* FALSE once the SubscribeHandle (both receivers) is dropped
    subret,         \* the last call on the SubscribeHandle and what it returned
    connections,    \* DirectStreamingEndpoint.connections: the peers in the map
    conn,           \* peer -> the state of its connection: "none", "open",
                    \* "closing" (closed, handle_connection has not seen it yet)
                    \* or "closed" (handle_connection has returned)
    streams,        \* peer -> the streams the peer opened, in the order opened:
                    \* for each the message it carries and where it stands
                    \* ("opened", "reading", "read", "done", or "failed"
                    \* where reading or decoding it gave an error)
    events,         \* the event channel (event_tx / event_rx)
    polled,         \* history: the events poll_events has returned, in order
    older,          \* peer -> the states of the peer's earlier connections,
                    \* those stored before the one `conn` describes
    endpoint_closed, \* TRUE once shutdown() has closed the endpoint
    catalog,        \* SubscribeBroadcast.catalog: the viewer's BroadcastCatalog
    highest,        \* history: None, or Some(the highest version
                    \* update_catalog was given)
    active_video_decoder,
                    \* SubscribeBroadcast.active_video_decoder: Option<track_name>
    packets,        \* the packets sent on the viewer's packet_tx so far, in order
    wret,           \* the last watch call of the viewer and what it returned
    stats,          \* ConnectionStats: the smoothed numbers of one connection
    stat_updates,   \* the number of samples fed to the ConnectionStats so far
    qret,           \* the last ConnectionStats call and what it returned
    ticket,         \* None, or Some(the LiveTicket built last)
    tret,           \* the last LiveTicket call and what it returned
    video_writer,   \* VideoTrackWriter: the groups of its track,
                    \* current_group and counters
    video_frames,   \* history: the frames given to the video writer, in order
    audio_writer,   \* AudioTrackWriter: the groups of its track,
                    \* current_group and counters
    audio_frames,   \* history: the frames given to the audio writer, in order
    pcatalog,       \* PublishBroadcast.catalog: the publisher's BroadcastCatalog
    catalog_rx,     \* the catalogs in the publisher's catalog channel, in order
    video_renditions,
                    \* PublishBroadcast.video_renditions: Option<track names>
    audio_renditions,
                    \* PublishBroadcast.audio_renditions: Option<track names>
    active_video_encoders,
                    \* the tracks of PublishBroadcast.active_video_encoders
    active_audio_encoders, 
                    \* the tracks of PublishBroadcast.active_audio_encoders
    wide,           \* ConnectionStats: bandwidth_bps and rtt_ms as u64 limbs
    wide_updates,   \* the number of samples fed to the u64 ConnectionStats
    eret            \* the last u64 ConnectionStats call; whether it panicked

storeVars == <<tracks, ret, started, watched>>
schedVars == <<pending, now, out>>
nsVars == <<published, announced, nsret>>
liveVars == <<inbox, broadcasts, sessions, session_tasks, shutdown_token, actor,
              next_session>>
subVars == <<reader, output, frames_read, taken, tasks, subscriber, cancel,
             handle_open, subret>>
directVars == <<connections, conn, streams, events, polled, older,
               endpoint_closed>>
viewerVars == <<catalog, highest, active_video_decoder, packets, wret>>
statsVars == <<stats, stat_updates, qret>>
ticketVars == <<ticket, tret>>
writerVars == <<video_writer, video_frames, audio_writer, audio_frames>>
publisherVars == <<pcatalog, catalog_rx, video_renditions, audio_renditions,
                   active_video_encoders, active_audio_encoders>>
wideVars == <<wide, wide_updates, eret>>
vars == <<tracks, ret, started, watched, pending, now, out,
          published, announced, nsret,
          inbox, broadcasts, sessions, session_tasks, shutdown_token, actor,
          next_session,
          reader, output, frames_read, taken, tasks, subscriber, cancel,
          handle_open, subret,
          connections, conn, streams, events, polled, older, endpoint_closed,
          catalog, highest, active_video_decoder, packets, wret,
          stats, stat_updates, qret,
          ticket, tret,
          video_writer, video_frames, audio_writer, audio_frames,
          pcatalog, catalog_rx, video_renditions, audio_renditions,
          active_video_encoders, active_audio_encoders,
          wide, wide_updates, eret>>
\* What the calls on one component leave alone.
notStore == <<schedVars, nsVars, liveVars, subVars, directVars,
              viewerVars, statsVars, ticketVars, writerVars, publisherVars, wideVars>>
notSched == <<storeVars, nsVars, liveVars, subVars, directVars,
              viewerVars, statsVars, ticketVars, writerVars, publisherVars, wideVars>>
notNs == <<storeVars, schedVars, liveVars, subVars, directVars,
           viewerVars, statsVars, ticketVars, writerVars, publisherVars, wideVars>>
notLive == <<storeVars, schedVars, nsVars, subVars, directVars,
             viewerVars, statsVars, ticketVars, writerVars, publisherVars, wideVars>>
notSub == <<storeVars, schedVars, nsVars, liveVars, directVars,
            viewerVars, statsVars, ticketVars, writerVars, publisherVars, wideVars>>
notDirect == <<storeVars, schedVars, nsVars, liveVars, subVars,
               viewerVars, statsVars, ticketVars, writerVars, publisherVars, wideVars>>
notViewer == <<storeVars, schedVars, nsVars, liveVars, subVars,
               directVars, statsVars, ticketVars, writerVars, publisherVars, wideVars>>
notStats == <<storeVars, schedVars, nsVars, liveVars, subVars,
              directVars, viewerVars, ticketVars, writerVars, publisherVars, wideVars>>
notTicket == <<storeVars, schedVars, nsVars, liveVars, subVars,
               directVars, viewerVars, statsVars, writerVars, publisherVars, wideVars>>
notWriter == <<storeVars, schedVars, nsVars, liveVars, subVars,
               directVars, viewerVars, statsVars, ticketVars, publisherVars, wideVars>>
notPublisher == <<storeVars, schedVars, nsVars, liveVars, subVars,
                  directVars, viewerVars, statsVars, ticketVars, writerVars, wideVars>>
notWide == <<storeVars, schedVars, nsVars, liveVars, subVars, directVars,
             viewerVars, statsVars, ticketVars, writerVars, publisherVars>>

\* The TrackData get_or_create_track inserts.
NewTrackData ==
    [status |-> [status |-> "Active", latest_group_id |-> None,
                 latest_object_id |-> None],
     groups |-> EmptyMap,
     next_group_id |-> 0,
     next_object_id |-> EmptyMap]

\* TrackStore::new
InitStore ==
    /\ tracks = EmptyMap
    /\ ret = [op |-> "new"]
    /\ started = EmptyMap
    /\ watched = EmptyMap

(***************************************************************************)
(* TrackStore operations.                                                  *)
(***************************************************************************)
RECURSIVE RemoveKeys(_, _)
RemoveKeys(f, ks) ==
    IF ks = {} THEN f
    ELSE LET k == CHOOSE x \in ks : TRUE IN RemoveKeys(Remove(f, k), ks \ {k})

\* group_ids.sort(); group_ids.into_iter().take(n): the n smallest ids.
Smallest(S, n) == { x \in S : Cardinality({ y \in S : y < x }) < n }

\* cleanup_old_groups with the sort reversed: the newest groups are removed.
CleanupNewestGroups(data) ==
    IF Cardinality(DOMAIN data.groups) > MaxGroups
    THEN LET to_remove == Cardinality(DOMAIN data.groups) - MaxGroups
             gone == { x \in DOMAIN data.groups :
                         Cardinality({ y \in DOMAIN data.groups : y > x }) < to_remove }
         IN [data EXCEPT !.groups = RemoveKeys(data.groups, gone),
                         !.next_object_id =
                             RemoveKeys(data.next_object_id,
                                        gone \cap DOMAIN data.next_object_id)]
    ELSE data

\* TrackStore::cleanup_old_groups
CleanupOldGroups(data) ==
    IF Cardinality(DOMAIN data.groups) > MaxGroups
    THEN LET to_remove == Cardinality(DOMAIN data.groups) - MaxGroups
             gone == Smallest(DOMAIN data.groups, to_remove)
         IN [data EXCEPT !.groups = RemoveKeys(data.groups, gone),
                         !.next_object_id =
                             RemoveKeys(data.next_object_id,
                                        gone \cap DOMAIN data.next_object_id)]
    ELSE data

\* let group_id = data.next_group_id;
NextGroupId(data) == data.next_group_id

\* start_group without `data.next_group_id += 1`.
StartGroupDataNoIncrement(data) ==
    LET group_id == NextGroupId(data)
    IN CleanupOldGroups(
         [data EXCEPT !.groups = Put(data.groups, group_id, NewGroup(group_id, now)),
                      !.next_object_id = Put(data.next_object_id, group_id, 0),
                      !.status.latest_group_id = Some(group_id)])

\* start_group without `data.status.latest_group_id = Some(group_id)`.
StartGroupDataNoLatest(data) ==
    LET group_id == NextGroupId(data)
    IN CleanupOldGroups(
         [data EXCEPT !.next_group_id = group_id + 1,
                      !.groups = Put(data.groups, group_id, NewGroup(group_id, now)),
                      !.next_object_id = Put(data.next_object_id, group_id, 0)])

\* The body of start_group for an existing track: the new TrackData.
StartGroupData(data) ==
    LET group_id == NextGroupId(data)
    IN CleanupOldGroups(
         [data EXCEPT !.next_group_id = group_id + 1,
                      !.groups = Put(data.groups, group_id, NewGroup(group_id, now)),
                      !.next_object_id = Put(data.next_object_id, group_id, 0),
                      !.status.latest_group_id = Some(group_id)])

\* *next_object_id.entry(group_id).or_insert(0)
NextObjectId(data, group_id) ==
    IF group_id \in DOMAIN data.next_object_id
    THEN data.next_object_id[group_id] ELSE 0

\* The body of add_object for an existing track: the new TrackData.
AddObjectData(data, group_id, subgroup_id) ==
    LET object_id == NextObjectId(data, group_id)
        obj == NewObject(group_id, subgroup_id, object_id)
        d1 == [data EXCEPT !.next_object_id =
                               Put(data.next_object_id, group_id, object_id + 1),
                           !.status.latest_object_id = Some(obj.object_id)]
    IN IF group_id \in DOMAIN data.groups
       THEN [d1 EXCEPT !.groups[group_id] = GroupAddObject(data.groups[group_id], obj)]
       ELSE d1

\* TrackStore::get_or_create_track
GetOrCreateTrack(t) ==
    LET key == ToPath(t) IN
    /\ tracks' = IF key \in DOMAIN tracks THEN tracks
                 ELSE Put(tracks, key, NewTrackData)
    /\ started' = IF key \in DOMAIN tracks THEN started ELSE Put(started, key, <<>>)
    /\ watched' = IF key \in DOMAIN tracks THEN watched ELSE Put(watched, key, None)
    /\ ret' = [op |-> "get_or_create_track", key |-> key,
               value |-> tracks'[key].status]
    /\ UNCHANGED notStore

\* TrackStore::start_group
StartGroup(t) ==
    LET key == ToPath(t) IN
    /\ IF key \in DOMAIN tracks
       THEN /\ tracks[key].next_group_id < MaxStarts
            /\ tracks' = [tracks EXCEPT ![key] = StartGroupData(tracks[key])]
            /\ ret' = [op |-> "start_group", key |-> key,
                       value |-> NextGroupId(tracks[key])]
            /\ started' = [started EXCEPT ![key] = Append(@, ret'.value)]
       ELSE /\ ret' = [op |-> "start_group", key |-> key, value |-> 0]
            /\ UNCHANGED <<tracks, started>>
    /\ UNCHANGED watched
    /\ UNCHANGED notStore

\* TrackStore::add_object, without the history of returned objects.
AddObjectCall(t, group_id, subgroup_id) ==
    LET key == ToPath(t) IN
    IF key \in DOMAIN tracks
    THEN LET object_id == NextObjectId(tracks[key], group_id)
             obj == NewObject(group_id, subgroup_id, object_id)
         IN /\ object_id < MaxObjId
            /\ tracks' = [tracks EXCEPT
                             ![key] = AddObjectData(tracks[key], group_id, subgroup_id)]
            /\ ret' = [op |-> "add_object", key |-> key, value |-> Some(obj)]
    ELSE /\ ret' = [op |-> "add_object", key |-> key, value |-> None]
         /\ UNCHANGED tracks

\* TrackStore::add_object
AddObject(t, group_id, subgroup_id) ==
    /\ AddObjectCall(t, group_id, subgroup_id)
    /\ UNCHANGED <<started, watched>>
    /\ UNCHANGED notStore

\* TrackStore::add_object, recording in `watched` one of the objects returned
\* so far: either the sample is kept, or (when there is none yet) the object
\* returned now becomes the sample.
AddObjectWatched(t, group_id, subgroup_id) ==
    LET key == ToPath(t) IN
    /\ AddObjectCall(t, group_id, subgroup_id)
    /\ \/ UNCHANGED watched
       \/ /\ key \in DOMAIN tracks
          /\ watched[key] = None
          /\ watched' = [watched EXCEPT ![key] = Some(Triple(ret'.value[1]))]
    /\ UNCHANGED started
    /\ UNCHANGED notStore

(***************************************************************************)
(* Subscription queries.                                                   *)
(***************************************************************************)
\* FilterType
LatestGroup == [type |-> "LatestGroup"]
LatestObject == [type |-> "LatestObject"]
NextGroup == [type |-> "NextGroup"]
AbsoluteStart(g, o) ==
    [type |-> "AbsoluteStart", start_group |-> g, start_object |-> o]
AbsoluteRange(g0, o0, g1, o1) ==
    [type |-> "AbsoluteRange", start_group |-> g0, start_object |-> o0,
     end_group |-> g1, end_object |-> o1]

\* GroupOrder
GroupOrders == {"Ascending", "Descending", "PublisherDefault"}

\* The positions a subscriber may name in a filter.
ObjectIds == 0..(MaxObjId - 1)
LatestFilters == {LatestGroup, LatestObject, NextGroup}
RangeFilters ==
    { AbsoluteStart(g, o) : g \in GroupIds, o \in ObjectIds }
    \cup { AbsoluteRange(x[1], x[2], x[3], x[4]) :
             x \in GroupIds \X ObjectIds \X GroupIds
                   \X ({None} \cup { Some(o) : o \in ObjectIds }) }
Filters == LatestFilters \cup RangeFilters
\* One filter of every type for a subscriber that chooses the group order:
\* the live edge, everything from the start of a group on, and everything up
\* to the end of a group.
OrderFilters ==
    LatestFilters
    \cup { AbsoluteStart(g, 0) : g \in GroupIds }
    \cup { AbsoluteRange(0, 0, g, None) : g \in GroupIds }

\* after_start with the start object excluded: o.object_id > start_object.
AfterStartStrict(gid, o, filter) ==
    gid > filter.start_group \/ o.object_id > filter.start_object

\* let after_start = *gid > *start_group || o.object_id >= *start_object;
AfterStart(gid, o, filter) ==
    gid > filter.start_group \/ o.object_id >= filter.start_object

\* before_end with the end object excluded: o.object_id < eo.
BeforeEndStrict(gid, o, filter) ==
    \/ gid < filter.end_group
    \/ (IF filter.end_object = None THEN TRUE ELSE o.object_id < filter.end_object[1])

\* let before_end = *gid < *end_group || end_object.map_or(true, |eo| o.object_id <= eo);
BeforeEnd(gid, o, filter) ==
    \/ gid < filter.end_group
    \/ (IF filter.end_object = None THEN TRUE ELSE o.object_id <= filter.end_object[1])

\* All objects of the groups of `data`.
AllObjects(data) == UNION { GroupObjects(data.groups[g]) : g \in DOMAIN data.groups }

\* The match on params.filter in get_objects: the objects selected, before
\* they are sorted.  (The iteration order of the HashMaps is unspecified;
\* the sort that follows orders by (group_id, object_id), which is unique
\* among the stored objects, so the selection is modelled as a set.)
FilterObjects(data, filter) ==
    CASE filter.type = "LatestGroup" ->
           IF data.status.latest_group_id # None
           THEN LET group_id == data.status.latest_group_id[1]
                IN IF group_id \in DOMAIN data.groups
                   THEN GroupObjects(data.groups[group_id]) ELSE {}
           ELSE {}
      [] filter.type = "LatestObject" ->
           IF data.status.latest_group_id # None /\ data.status.latest_object_id # None
           THEN LET group_id == data.status.latest_group_id[1]
                    object_id == data.status.latest_object_id[1]
                IN IF group_id \in DOMAIN data.groups
                   THEN { o \in GroupObjects(data.groups[group_id]) :
                            o.object_id = object_id }
                   ELSE {}
           ELSE {}
      [] filter.type = "NextGroup" -> {}
      [] filter.type = "AbsoluteStart" ->
           UNION { { o \in GroupObjects(data.groups[gid]) : AfterStart(gid, o, filter) } :
                   gid \in { g \in DOMAIN data.groups : g >= filter.start_group } }
      [] filter.type = "AbsoluteRange" ->
           UNION { { o \in GroupObjects(data.groups[gid]) :
                       AfterStart(gid, o, filter) /\ BeforeEnd(gid, o, filter) } :
                   gid \in { g \in DOMAIN data.groups :
                               g >= filter.start_group /\ g <= filter.end_group } }

\* a.group_id.cmp(&b.group_id).then_with(|| a.object_id.cmp(&b.object_id))
\* is Less or Equal.
CmpLe(a, b) ==
    \/ a.group_id < b.group_id
    \/ a.group_id = b.group_id /\ a.object_id <= b.object_id

RECURSIVE SortBy(_, _)
\* objects.sort_by(..): ascending by (group_id, object_id) when asc, else
\* descending.
SortBy(S, asc) ==
    IF S = {} THEN <<>>
    ELSE LET first == CHOOSE x \in S :
                        \A y \in S : IF asc THEN CmpLe(x, y) ELSE CmpLe(y, x)
         IN <<first>> \o SortBy(S \ {first}, asc)

\* get_objects with the Ascending arm taken for every group order.
SortByOrderAscending(S, group_order) == SortBy(S, TRUE)

\* The match on params.group_order in get_objects.
SortByOrder(S, group_order) ==
    IF group_order \in {"Ascending", "PublisherDefault"}
    THEN SortBy(S, TRUE) ELSE SortBy(S, FALSE)

\* Vec::retain(|o| !o.is_expired())
RetainUnexpired(objects, t) == SelectSeq(objects, LAMBDA o : ~IsExpired(o, t))

\* TrackStore::get_objects on the store `trs`, at wall-clock time t.
GetObjectsOf(trs, params, t) ==
    LET key == ToPath(params.track) IN
    IF key \in DOMAIN trs
    THEN RetainUnexpired(
             SortByOrder(FilterObjects(trs[key], params.filter), params.group_order), t)
    ELSE <<>>

\* TrackStore::get_objects
GetObjects(t, filter, group_order) ==
    LET params == [track |-> t, filter |-> filter, group_order |-> group_order] IN
    /\ ret' = [op |-> "get_objects", key |-> ToPath(t), params |-> params,
               value |-> GetObjectsOf(tracks, params, now)]
    /\ UNCHANGED <<tracks, started, watched>>
    /\ UNCHANGED notStore

(***************************************************************************)
(* Priority scheduler.                                                     *)
(***************************************************************************)
\* u8 priorities the callers use (lower number = higher priority).
Priorities == {0, 128, 255}
\* ttl_ms arguments the callers use: no deadline, or one that passes with
\* the next tick of the clock.
Ttls == {None, Some(0)}
\* (object_id, publisher_priority) of the objects the callers enqueue.
SchedObjects == { <<0, 255>>, <<1, 0>> }

\* MoqObject::with_priority
WithPriority(o, priority) == [o EXCEPT !.publisher_priority = priority]

\* MoqObject::with_ttl, for an object created at created_at.
WithTtl(o, created_at, ttl_ms) == [o EXCEPT !.expires_at = Some(created_at + ttl_ms)]

\* PendingDelivery (queued_at is never read).
Delivery(object, subscriber_priority) ==
    [object |-> object, subscriber_priority |-> subscriber_priority,
     effective_priority |-> subscriber_priority]

\* enqueue with pending.push(delivery) in place of the ordered insert.
InsertPosEnd(q, p) == Len(q) + 1

\* enqueue with the comparison turned round:
\* position(|d| d.effective_priority < p).
InsertPosReversed(q, p) ==
    IF \E i \in DOMAIN q : q[i].effective_priority < p
    THEN CHOOSE i \in DOMAIN q :
           /\ q[i].effective_priority < p
           /\ \A j \in 1..(i - 1) : ~(q[j].effective_priority < p)
    ELSE Len(q) + 1

\* enqueue placing the new item before the queued items of its own priority:
\* position(|d| d.effective_priority >= p).
InsertPosBeforeEqual(q, p) ==
    IF \E i \in DOMAIN q : q[i].effective_priority >= p
    THEN CHOOSE i \in DOMAIN q :
           /\ q[i].effective_priority >= p
           /\ \A j \in 1..(i - 1) : ~(q[j].effective_priority >= p)
    ELSE Len(q) + 1

\* pending.iter().position(|d| d.effective_priority > p).unwrap_or(pending.len()),
\* as a 1-based index.
InsertPos(q, p) ==
    IF \E i \in DOMAIN q : q[i].effective_priority > p
    THEN CHOOSE i \in DOMAIN q :
           /\ q[i].effective_priority > p
           /\ \A j \in 1..(i - 1) : ~(q[j].effective_priority > p)
    ELSE Len(q) + 1

\* Vec::insert(pos, d), pos 1-based.
InsertAt(q, pos, d) == SubSeq(q, 1, pos - 1) \o <<d>> \o SubSeq(q, pos, Len(q))

\* enqueue trimming with pending.remove(0) in place of pending.pop().
TrimFront(q) ==
    IF Len(q) > MaxQueueSize THEN SubSeq(q, Len(q) - MaxQueueSize + 1, Len(q)) ELSE q

\* while pending.len() > max_queue_size { pending.pop(); }
Trim(q) == IF Len(q) > MaxQueueSize THEN SubSeq(q, 1, MaxQueueSize) ELSE q

\* The items the trimming loop pops.
Popped(q) == IF Len(q) > MaxQueueSize THEN SubSeq(q, MaxQueueSize + 1, Len(q)) ELSE <<>>

\* dequeue without the retain: expired entries stay queued.
RetainAll(q, t) == q

\* pending.retain(|d| !d.object.is_expired())
RetainPending(q, t) == SelectSeq(q, LAMBDA d : ~IsExpired(d.object, t))

\* drop_low_priority with the comparison made strict:
\* pending.retain(|d| d.effective_priority < threshold).
RetainPriorityStrict(q, threshold) == SelectSeq(q, LAMBDA d : d.effective_priority < threshold)

\* pending.retain(|d| d.effective_priority <= threshold)
RetainPriority(q, threshold) == SelectSeq(q, LAMBDA d : d.effective_priority <= threshold)

\* PriorityScheduler::new
InitSched ==
    /\ pending = <<>>
    /\ now = 0
    /\ out = [op |-> "new"]

\* PriorityScheduler::enqueue, called as moq_enqueue_object calls it.
Enqueue(object_id, publisher_priority, subscriber_priority, ttl_ms) ==
    LET o1 == WithPriority(NewObject(0, 0, object_id), publisher_priority)
        object == IF ttl_ms # None THEN WithTtl(o1, now, ttl_ms[1]) ELSE o1
        delivery == Delivery(object, subscriber_priority)
        inserted == InsertAt(pending, InsertPos(pending, delivery.effective_priority),
                             delivery)
    IN /\ pending' = Trim(inserted)
       /\ out' = [op |-> "enqueue", delivery |-> delivery, dropped |-> Popped(inserted)]
       /\ UNCHANGED now
       /\ UNCHANGED notSched

\* PriorityScheduler::dequeue.  `delivery` keeps the queue entry of the
\* object returned and `expired` the number of entries the retain removed.
Dequeue ==
    LET retained == RetainPending(pending, now) IN
    /\ IF retained = <<>>
       THEN /\ pending' = retained
            /\ out' = [op |-> "dequeue", value |-> None, delivery |-> None,
                       expired |-> Len(pending) - Len(retained)]
       ELSE /\ pending' = Tail(retained)
            /\ out' = [op |-> "dequeue", value |-> Some(Head(retained).object),
                       delivery |-> Some(Head(retained)),
                       expired |-> Len(pending) - Len(retained)]
    /\ UNCHANGED now
    /\ UNCHANGED notSched

\* PriorityScheduler::queue_len
QueueLen ==
    /\ out' = [op |-> "queue_len", value |-> Len(pending)]
    /\ UNCHANGED <<pending, now>>
    /\ UNCHANGED notSched

\* PriorityScheduler::drop_low_priority
DropLowPriority(threshold) ==
    LET before == Len(pending) IN
    /\ pending' = RetainPriority(pending, threshold)
    /\ out' = [op |-> "drop_low_priority", threshold |-> threshold,
               value |-> before - Len(pending')]
    /\ UNCHANGED now
    /\ UNCHANGED notSched

\* The wall clock advances by a millisecond; `out` describes the call that
\* produced the current state, so it is cleared.
Tick ==
    /\ now < MaxTime
    /\ now' = now + 1
    /\ out' = [op |-> "tick"]
    /\ UNCHANGED pending
    /\ UNCHANGED notSched

(***************************************************************************)
(* Specifications.                                                         *)
(***************************************************************************)
(***************************************************************************)
(* Namespace announcements.                                                *)
(***************************************************************************)
\* NamespaceManager::new
InitNs ==
    /\ published = EmptyMap
    /\ announced = {}
    /\ nsret = [op |-> "new"]

\* NamespaceManager::announce, called as moq_announce_namespace calls it.
Announce(namespace_path, accepts_publishing) ==
    LET announcement == [namespace |-> FromStr(namespace_path),
                         accepts_publishing |-> accepts_publishing]
        key == ToStringPath(announcement.namespace)
    IN /\ published' = Put(published, key, announcement)
       /\ announced' = announced \cup {announcement.namespace}
       /\ nsret' = [op |-> "announce", key |-> key]
       /\ UNCHANGED notNs

\* NamespaceManager::subscribe, called as moq_subscribe_namespace calls it.
\* (The order of published.values() is unspecified; the result is kept as
\* the set of its elements.)
Subscribe(namespace_prefix) ==
    LET prefix == FromStr(namespace_prefix) IN
    /\ nsret' = [op |-> "subscribe", prefix |-> prefix,
                 value |-> { a \in Range(published) : IsPrefixOf(prefix, a.namespace) }]
    /\ UNCHANGED <<published, announced>>
    /\ UNCHANGED notNs

\* moq_namespace_is_prefix
NamespaceIsPrefix(prefix, full_path) ==
    /\ nsret' = [op |-> "is_prefix", prefix |-> FromStr(prefix),
                 full |-> FromStr(full_path),
                 value |-> IsPrefixOf(FromStr(prefix), FromStr(full_path))]
    /\ UNCHANGED <<published, announced>>
    /\ UNCHANGED notNs

(***************************************************************************)
(* The Live actor.                                                         *)
(***************************************************************************)
\* EndpointIds of the peers that connect.
Remotes == {"n1", "n2"}
\* Broadcast names and producers the application publishes.
BroadcastNames == {"cam"}
Producers == {"p1", "p2"}

\* ActorMessage
HandleSession(session) == [type |-> "HandleSession", session |-> session]
PublishBroadcast(name, producer) ==
    [type |-> "PublishBroadcast", name |-> name, producer |-> producer]
RemoveBroadcast(name) == [type |-> "RemoveBroadcast", name |-> name]

\* A LiveSession: the peer, the connection it stands for, and what has been
\* published on its OriginProducer.
LiveSession(remote, id) == [remote |-> remote, id |-> id, publish |-> {}]

\* OriginProducer::publish_broadcast on the origin `publish`.
PublishOn(publish, name, producer) == publish \cup {<<name, producer>>}

\* Live::new: Actor::default() and the spawned Actor::run.
InitLive ==
    /\ inbox = <<>>
    /\ broadcasts = EmptyMap
    /\ sessions = EmptyMap
    /\ session_tasks = EmptyMap
    /\ shutdown_token = FALSE
    /\ actor = "running"
    /\ next_session = 0

\* mpsc::Sender::send: waits while the channel is full; once the receiver is
\* gone it fails ("live actor died") and nothing changes.
Send(msg) ==
    /\ actor = "running"
    /\ Len(inbox) < InboxCapacity
    /\ inbox' = Append(inbox, msg)

\* LiveProtocolHandler::handle_connection
HandleConnection(remote) ==
    /\ next_session < MaxSessions
    /\ Send(HandleSession(LiveSession(remote, next_session)))
    /\ next_session' = next_session + 1
    /\ UNCHANGED <<broadcasts, sessions, session_tasks, shutdown_token, actor>>
    /\ UNCHANGED notLive

\* Live::publish
Publish(name, producer) ==
    /\ Send(PublishBroadcast(name, producer))
    /\ UNCHANGED <<broadcasts, sessions, session_tasks, shutdown_token, actor,
                   next_session>>
    /\ UNCHANGED notLive

\* Live::unpublish
Unpublish(name) ==
    /\ Send(RemoveBroadcast(name))
    /\ UNCHANGED <<broadcasts, sessions, session_tasks, shutdown_token, actor,
                   next_session>>
    /\ UNCHANGED notLive

\* Live::shutdown
Shutdown ==
    /\ shutdown_token' = TRUE
    /\ UNCHANGED <<inbox, broadcasts, sessions, session_tasks, actor, next_session>>
    /\ UNCHANGED notLive

\* handle_incoming_session that stores the session without the catch-up loop.
HandleIncomingSessionNoCatchUp(session) ==
    /\ sessions' = Put(sessions, session.remote, session)
    /\ session_tasks' = Put(session_tasks, session.id,
                            [remote |-> session.remote, state |-> "running"])
    /\ UNCHANGED broadcasts

\* Actor::handle_incoming_session: publishes every stored broadcast to the
\* peer, stores the SessionState under the remote id (replacing the state of
\* an earlier session of the same peer) and spawns the monitoring task.
HandleIncomingSession(session) ==
    LET publish == session.publish
                     \cup { <<name, broadcasts[name]>> : name \in DOMAIN broadcasts }
    IN /\ sessions' = Put(sessions, session.remote, [session EXCEPT !.publish = publish])
       /\ session_tasks' = Put(session_tasks, session.id,
                               [remote |-> session.remote, state |-> "running"])
       /\ UNCHANGED broadcasts

\* Actor::handle_publish_broadcast
HandlePublishBroadcast(name, producer) ==
    /\ sessions' = [r \in DOMAIN sessions |->
                      [sessions[r] EXCEPT !.publish = PublishOn(@, name, producer)]]
    /\ broadcasts' = Put(broadcasts, name, producer)
    /\ UNCHANGED session_tasks

\* Actor::handle_remove_broadcast
HandleRemoveBroadcast(name) ==
    /\ broadcasts' = Remove(broadcasts, name)
    /\ UNCHANGED <<sessions, session_tasks>>

\* Actor::handle_message
HandleMessage(msg) ==
    CASE msg.type = "HandleSession" -> HandleIncomingSession(msg.session)
      [] msg.type = "PublishBroadcast" -> HandlePublishBroadcast(msg.name, msg.producer)
      [] msg.type = "RemoveBroadcast" -> HandleRemoveBroadcast(msg.name)

\* Actor::run, the inbox.recv() arm of the select!.  The select! polls its
\* arms in random order, so this arm may be taken while the shutdown token
\* is cancelled.
ActorRecv ==
    /\ actor = "running"
    /\ inbox # <<>>
    /\ HandleMessage(Head(inbox))
    /\ inbox' = Tail(inbox)
    /\ UNCHANGED <<shutdown_token, actor, next_session>>
    /\ UNCHANGED notLive

\* Actor::run, the session_tasks.join_next() arm: a task that has finished
\* is taken from the JoinSet and the entry of its remote id is removed.
ActorJoinNext(id) ==
    /\ actor = "running"
    /\ id \in DOMAIN session_tasks
    /\ session_tasks[id].state \in {"closed", "ended"}
    /\ sessions' = Remove(sessions, session_tasks[id].remote)
    /\ session_tasks' = Remove(session_tasks, id)
    /\ UNCHANGED <<inbox, broadcasts, shutdown_token, actor, next_session>>
    /\ UNCHANGED notLive

\* JoinSet::abort_all: the tasks that have not finished are cancelled.
AbortAll(ts) ==
    [id \in DOMAIN ts |->
       IF ts[id].state = "running" THEN [ts[id] EXCEPT !.state = "aborted"]
       ELSE ts[id]]

\* Actor::run, the shutdown_token.cancelled() arm: break, abort_all, and the
\* actor with its inbox is dropped.
ActorShutdown ==
    /\ actor = "running"
    /\ shutdown_token
    /\ actor' = "stopped"
    /\ session_tasks' = AbortAll(session_tasks)
    /\ inbox' = <<>>
    /\ UNCHANGED <<broadcasts, sessions, shutdown_token, next_session>>
    /\ UNCHANGED notLive

\* The last Live is dropped: the AbortOnDropHandle aborts the actor task at
\* its await, and dropping the Actor drops the JoinSet, which aborts the
\* session tasks.
DropLive ==
    /\ actor = "running"
    /\ actor' = "stopped"
    /\ session_tasks' = AbortAll(session_tasks)
    /\ inbox' = <<>>
    /\ UNCHANGED <<broadcasts, sessions, shutdown_token, next_session>>
    /\ UNCHANGED notLive

\* The session task, shutdown.cancelled() arm: moq_session.close(Cancel).
SessionTaskCancelled(id) ==
    /\ id \in DOMAIN session_tasks
    /\ session_tasks[id].state = "running"
    /\ shutdown_token
    /\ session_tasks' = [session_tasks EXCEPT ![id].state = "closed"]
    /\ UNCHANGED <<inbox, broadcasts, sessions, shutdown_token, actor, next_session>>
    /\ UNCHANGED notLive

\* The session task, moq_session.closed() arm: the peer ended the session.
SessionTaskClosed(id) ==
    /\ id \in DOMAIN session_tasks
    /\ session_tasks[id].state = "running"
    /\ session_tasks' = [session_tasks EXCEPT ![id].state = "ended"]
    /\ UNCHANGED <<inbox, broadcasts, sessions, shutdown_token, actor, next_session>>
    /\ UNCHANGED notLive

(***************************************************************************)
(* Broadcast subscription.                                                 *)
(***************************************************************************)
\* The two tracks run_subscriber subscribes to.
SubTracks == {"video", "audio"}
\* The payloads of the inbound frames.
FrameData == {"key", "delta"}

\* ReceivedVideoFrame / ReceivedAudioFrame
ReceivedFrame(data, track, sequence) ==
    [data |-> data, track |-> track, sequence |-> sequence]

\* WatchTrack::new / AudioTrack::new, and where the task stands: "select"
\* (at the select! of the outer loop), "group" (at group.read_frame()),
\* "send" (at output_tx.send(frame)), "done" (run has returned) or
\* "aborted" (the task was cancelled at its await).
NewReader == [pc |-> "select", frame_count |-> 0, frame |-> None]

\* The sender of the track's output channel is dropped with its task.
Terminated(t) == reader[t].pc \in {"done", "aborted"}

\* SubscribeBroadcast::start, once run_subscriber has spawned both readers.
InitSub ==
    /\ reader = [t \in SubTracks |-> NewReader]
    /\ output = [t \in SubTracks |-> <<>>]
    /\ frames_read = [t \in SubTracks |-> <<>>]
    /\ taken = [t \in SubTracks |-> <<>>]
    /\ tasks = SubTracks
    /\ subscriber = "running"
    /\ cancel = FALSE
    /\ handle_open = TRUE
    /\ subret = [op |-> "start"]

\* run, the cancel.cancelled() arm of the select!: break.
ReaderCancelled(t) ==
    /\ reader[t].pc = "select"
    /\ cancel
    /\ reader' = [reader EXCEPT ![t].pc = "done"]
    /\ UNCHANGED <<output, frames_read, taken, tasks, subscriber, cancel,
                   handle_open, subret>>
    /\ UNCHANGED notSub

\* run, the consumer.next_group() arm: Ok(Some(group)) enters the group,
\* Ok(None) and Err(e) break.
ReaderNextGroup(t, result) ==
    /\ reader[t].pc = "select"
    /\ reader' = [reader EXCEPT ![t].pc = IF result = "group" THEN "group" ELSE "done"]
    /\ UNCHANGED <<output, frames_read, taken, tasks, subscriber, cancel,
                   handle_open, subret>>
    /\ UNCHANGED notSub

\* run, group.read_frame() gives Ok(Some(data)): the frame is counted and
\* built, and the task goes on to send it.
ReaderReadFrame(t, data) ==
    /\ reader[t].pc = "group"
    /\ reader[t].frame_count < MaxFrames
    /\ reader' = [reader EXCEPT
                     ![t] = [pc |-> "send",
                             frame_count |-> reader[t].frame_count + 1,
                             frame |-> Some(ReceivedFrame(data, t,
                                                          reader[t].frame_count + 1))]]
    /\ frames_read' = [frames_read EXCEPT ![t] = Append(@, data)]
    /\ UNCHANGED <<output, taken, tasks, subscriber, cancel, handle_open, subret>>
    /\ UNCHANGED notSub

\* run, group.read_frame() gives Ok(None) or Err(e): the while loop ends and
\* the outer loop goes round.
ReaderGroupEnd(t) ==
    /\ reader[t].pc = "group"
    /\ reader' = [reader EXCEPT ![t].pc = "select"]
    /\ UNCHANGED <<output, frames_read, taken, tasks, subscriber, cancel,
                   handle_open, subret>>
    /\ UNCHANGED notSub

\* output_tx.try_send(frame) in place of send(frame).await: a frame that
\* finds the channel full is dropped.
ReaderTrySend(t) ==
    /\ reader[t].pc = "send"
    /\ IF ~handle_open
       THEN /\ reader' = [reader EXCEPT ![t] = [@ EXCEPT !.pc = "done", !.frame = None]]
            /\ UNCHANGED output
       ELSE /\ output' = [output EXCEPT
                            ![t] = IF Len(@) < BufferSize
                                   THEN Append(@, reader[t].frame[1]) ELSE @]
            /\ reader' = [reader EXCEPT ![t] = [@ EXCEPT !.pc = "group", !.frame = None]]
    /\ UNCHANGED <<frames_read, taken, tasks, subscriber, cancel, handle_open, subret>>
    /\ UNCHANGED notSub

\* run, output_tx.send(frame).await: fails once the receiver is dropped (run
\* returns), waits while the channel holds buffer_size frames, and otherwise
\* queues the frame.
ReaderSend(t) ==
    /\ reader[t].pc = "send"
    /\ IF ~handle_open
       THEN /\ reader' = [reader EXCEPT ![t] = [@ EXCEPT !.pc = "done", !.frame = None]]
            /\ UNCHANGED output
       ELSE /\ Len(output[t]) < BufferSize
            /\ output' = [output EXCEPT ![t] = Append(@, reader[t].frame[1])]
            /\ reader' = [reader EXCEPT ![t] = [@ EXCEPT !.pc = "group", !.frame = None]]
    /\ UNCHANGED <<frames_read, taken, tasks, subscriber, cancel, handle_open, subret>>
    /\ UNCHANGED notSub

\* run_subscriber without tasks.abort_all(): the readers are left running.
AbortTasksNone(rs) == rs

\* JoinSet::abort_all (and the drop of the JoinSet): the reader tasks that
\* have not finished are cancelled at their await.
AbortTasks(rs) ==
    [t \in DOMAIN rs |->
       IF rs[t].pc \in {"done", "aborted"} THEN rs[t]
       ELSE [rs[t] EXCEPT !.pc = "aborted", !.frame = None]]

\* run_subscriber, the cancel.cancelled() arm: abort_all, break, return.
SubscriberCancelled ==
    /\ subscriber = "running"
    /\ cancel
    /\ reader' = AbortTasks(reader)
    /\ subscriber' = "ended"
    /\ tasks' = {}
    /\ UNCHANGED <<output, frames_read, taken, cancel, handle_open, subret>>
    /\ UNCHANGED notSub

\* run_subscriber, the tasks.join_next() arm: a reader that has returned is
\* taken from the JoinSet.  The result is Some(..) whenever the set is not
\* empty, and the arm is disabled when it is, so the loop goes on.
SubscriberJoinNext(t) ==
    /\ subscriber = "running"
    /\ t \in tasks
    /\ reader[t].pc = "done"
    /\ tasks' = tasks \ {t}
    /\ UNCHANGED <<reader, output, frames_read, taken, subscriber, cancel,
                   handle_open, subret>>
    /\ UNCHANGED notSub

\* SubscribeHandle::stop
Stop ==
    /\ cancel' = TRUE
    /\ subret' = [op |-> "stop"]
    /\ UNCHANGED <<reader, output, frames_read, taken, tasks, subscriber, handle_open>>
    /\ UNCHANGED notSub

\* SubscribeHandle::recv_video / recv_audio: the next frame of the channel;
\* None once the channel is empty and its sender is dropped; waits otherwise.
Recv(t) ==
    /\ handle_open
    /\ IF output[t] # <<>>
       THEN /\ output' = [output EXCEPT ![t] = Tail(@)]
            /\ taken' = [taken EXCEPT ![t] = Append(@, Head(output[t]))]
            /\ subret' = [op |-> "recv", track |-> t, value |-> Some(Head(output[t]))]
       ELSE /\ Terminated(t)
            /\ subret' = [op |-> "recv", track |-> t, value |-> None]
            /\ UNCHANGED <<output, taken>>
    /\ UNCHANGED <<reader, frames_read, tasks, subscriber, cancel, handle_open>>
    /\ UNCHANGED notSub

\* The SubscribeHandle is dropped, and both receivers with it.
DropHandle ==
    /\ handle_open
    /\ handle_open' = FALSE
    /\ subret' = [op |-> "drop"]
    /\ UNCHANGED <<reader, output, frames_read, taken, tasks, subscriber, cancel>>
    /\ UNCHANGED notSub

(***************************************************************************)
(* Direct streaming.                                                       *)
(***************************************************************************)
\* EndpointIds of the peers of the direct streaming endpoint.
DirectPeers == {"n1", "n2"}

\* DirectStreamEvent (the timestamp of a Message, a wall-clock reading, is
\* left out; `message` is the number of the message in the order the peer
\* sent them).
PeerConnected(endpoint_id) == [type |-> "PeerConnected", endpoint_id |-> endpoint_id]
PeerDisconnected(endpoint_id) ==
    [type |-> "PeerDisconnected", endpoint_id |-> endpoint_id]
Message(from, message) == [type |-> "Message", from |-> from, message |-> message]

\* DirectStreamingEndpoint::new
InitDirect ==
    /\ connections = {}
    /\ conn = [p \in DirectPeers |-> "none"]
    /\ streams = [p \in DirectPeers |-> <<>>]
    /\ events = <<>>
    /\ polled = <<>>
    /\ older = [p \in DirectPeers |-> <<>>]
    /\ endpoint_closed = FALSE

\* The connections one peer has made so far.
ConnectionsOf(peer) ==
    Len(older[peer]) + (IF conn[peer] = "none" THEN 0 ELSE 1)

\* The connection is stored, PeerConnected is sent and handle_connection
\* starts: the common part of start_accepting and connect_to_peer.
\* conns.insert(remote_id, ..) replaces what the map held for the peer; an
\* earlier connection of the peer lives on with its own handle_connection.
Connected(peer) ==
    /\ ~endpoint_closed
    /\ ConnectionsOf(peer) < MaxConnections
    /\ connections' = connections \cup {peer}
    /\ events' = Append(events, PeerConnected(peer))
    /\ older' = IF conn[peer] = "none" THEN older
                ELSE [older EXCEPT ![peer] = Append(@, conn[peer])]
    /\ conn' = [conn EXCEPT ![peer] = "open"]
    /\ UNCHANGED <<streams, polled, endpoint_closed>>
    /\ UNCHANGED notDirect

\* start_accepting, the task spawned for an incoming connection.
AcceptConnection(peer) == Connected(peer)

\* connect_to_peer
ConnectToPeer(peer) == Connected(peer)

\* The peer sends its next message: send_to_peer on the remote endpoint
\* opens a stream of its own for it.
PeerSends(peer) ==
    /\ conn[peer] = "open"
    /\ Len(streams[peer]) < MaxMessages
    /\ streams' = [streams EXCEPT
                      ![peer] = Append(@, [message |-> Len(@) + 1, state |-> "opened"])]
    /\ UNCHANGED <<connections, conn, events, polled>>
    /\ UNCHANGED <<older, endpoint_closed>>
    /\ UNCHANGED notDirect

\* handle_connection, conn.accept_bi() gives Ok: the next stream of the
\* peer is accepted and a task is spawned to read it.
AcceptBi(peer) ==
    /\ conn[peer] = "open"
    /\ \E i \in DOMAIN streams[peer] :
         /\ streams[peer][i].state = "opened"
         /\ \A j \in 1..(i - 1) : streams[peer][j].state # "opened"
         /\ streams' = [streams EXCEPT ![peer][i].state = "reading"]
    /\ UNCHANGED <<connections, conn, events, polled>>
    /\ UNCHANGED <<older, endpoint_closed>>
    /\ UNCHANGED notDirect

\* The stream task, recv.read_to_end(..) gives Ok(data) and the data
\* decodes: the task holds the message.
StreamRead(peer, i) ==
    /\ i \in DOMAIN streams[peer]
    /\ streams[peer][i].state = "reading"
    /\ conn[peer] = "open"
    /\ streams' = [streams EXCEPT ![peer][i].state = "read"]
    /\ UNCHANGED <<connections, conn, events, polled>>
    /\ UNCHANGED <<older, endpoint_closed>>
    /\ UNCHANGED notDirect

\* The stream task, read_to_end(1024 * 1024) or DirectMessage::decode gives
\* Err: a warn! line is logged and the task ends; no event is sent and the
\* connection is left as it is.
StreamFailed(peer, i) ==
    /\ i \in DOMAIN streams[peer]
    /\ streams[peer][i].state = "reading"
    /\ streams' = [streams EXCEPT ![peer][i].state = "failed"]
    /\ UNCHANGED <<connections, conn, events, polled>>
    /\ UNCHANGED <<older, endpoint_closed>>
    /\ UNCHANGED notDirect

\* The stream task, event_tx.send(DirectStreamEvent::Message {..}).
StreamEmit(peer, i) ==
    /\ i \in DOMAIN streams[peer]
    /\ streams[peer][i].state = "read"
    /\ events' = Append(events, Message(peer, streams[peer][i].message))
    /\ streams' = [streams EXCEPT ![peer][i].state = "done"]
    /\ UNCHANGED <<connections, conn, polled>>
    /\ UNCHANGED <<older, endpoint_closed>>
    /\ UNCHANGED notDirect

\* The peer closes the connection, or it is lost.
PeerCloses(peer) ==
    /\ conn[peer] = "open"
    /\ conn' = [conn EXCEPT ![peer] = "closing"]
    /\ UNCHANGED <<connections, streams, events, polled>>
    /\ UNCHANGED <<older, endpoint_closed>>
    /\ UNCHANGED notDirect

\* disconnect_peer
DisconnectPeer(peer) ==
    /\ IF peer \in connections
       THEN /\ connections' = connections \ {peer}
            /\ conn' = [conn EXCEPT ![peer] = IF @ = "open" THEN "closing" ELSE @]
       ELSE UNCHANGED <<connections, conn>>
    /\ UNCHANGED <<streams, events, polled>>
    /\ UNCHANGED <<older, endpoint_closed>>
    /\ UNCHANGED notDirect

\* handle_connection ending without the PeerDisconnected event.
HandleConnectionClosedSilent(peer) ==
    /\ conn[peer] = "closing"
    /\ connections' = connections \ {peer}
    /\ conn' = [conn EXCEPT ![peer] = "closed"]
    /\ UNCHANGED <<streams, events, polled>>
    /\ UNCHANGED <<older, endpoint_closed>>
    /\ UNCHANGED notDirect

\* handle_connection, conn.accept_bi() gives Err: break, the peer is
\* removed from the map and PeerDisconnected is sent.
HandleConnectionClosed(peer) ==
    /\ conn[peer] = "closing"
    /\ connections' = connections \ {peer}
    /\ events' = Append(events, PeerDisconnected(peer))
    /\ conn' = [conn EXCEPT ![peer] = "closed"]
    /\ UNCHANGED <<streams, polled>>
    /\ UNCHANGED <<older, endpoint_closed>>
    /\ UNCHANGED notDirect

\* poll_events: every event of the channel, in channel order.
PollEvents ==
    /\ polled' = polled \o events
    /\ events' = <<>>
    /\ UNCHANGED <<connections, conn, streams>>
    /\ UNCHANGED <<older, endpoint_closed>>
    /\ UNCHANGED notDirect

\* The peer closes one of its earlier connections, or it is lost.
OlderCloses(peer, k) ==
    /\ k \in DOMAIN older[peer]
    /\ older[peer][k] = "open"
    /\ older' = [older EXCEPT ![peer][k] = "closing"]
    /\ UNCHANGED <<connections, conn, streams, events, polled, endpoint_closed>>
    /\ UNCHANGED notDirect

\* handle_connection of an earlier connection of the peer, conn.accept_bi()
\* gives Err: break, conns.remove(&remote_id) removes whatever the map holds
\* for the peer, and PeerDisconnected is sent.
OlderHandleConnectionClosed(peer, k) ==
    /\ k \in DOMAIN older[peer]
    /\ older[peer][k] = "closing"
    /\ connections' = connections \ {peer}
    /\ events' = Append(events, PeerDisconnected(peer))
    /\ older' = [older EXCEPT ![peer][k] = "closed"]
    /\ UNCHANGED <<conn, streams, polled, endpoint_closed>>
    /\ UNCHANGED notDirect

\* shutdown(): every connection of the map is drained and closed, then
\* endpoint.close() closes the endpoint and every connection it still has.
ShutdownEndpoint ==
    /\ ~endpoint_closed
    /\ connections' = {}
    /\ conn' = [p \in DirectPeers |->
                   IF conn[p] = "open" THEN "closing" ELSE conn[p]]
    /\ older' = [p \in DirectPeers |->
                    [k \in DOMAIN older[p] |->
                        IF older[p][k] = "open" THEN "closing" ELSE older[p][k]]]
    /\ endpoint_closed' = TRUE
    /\ UNCHANGED <<streams, events, polled>>
    /\ UNCHANGED notDirect

(***************************************************************************)
(* subscribe.rs: SubscribeBroadcast, the viewer's catalog and decoders.    *)
(***************************************************************************)
\* VideoPreset::track_name / AudioPreset::track_name of the presets offered.
VideoTracks == {"video-360p", "video-720p"}
AudioTracks == {"audio-hq"}

\* Option<VideoInfo> and Option<AudioInfo>, by the names of their renditions.
VideoInfos == {None, Some({"video-360p"}), Some(VideoTracks)}
AudioInfos == {None, Some(AudioTracks)}

\* struct BroadcastCatalog.
BroadcastCatalog(video, audio, version) ==
    [video |-> video, audio |-> audio, version |-> version]

\* BroadcastCatalog::default().
DefaultCatalog == BroadcastCatalog(None, None, 0)

\* The catalogs a viewer can be handed.
Catalogs ==
    {BroadcastCatalog(v, a, n) : v \in VideoInfos, a \in AudioInfos,
                                 n \in 0..MaxVersion}

\* struct EncodedPacket, without its payload.
EncodedPacket(track_name, is_keyframe) ==
    [track_name |-> track_name, is_keyframe |-> is_keyframe]

\* SubscribeBroadcast::new().
InitViewer ==
    /\ catalog = DefaultCatalog
    /\ highest = None
    /\ active_video_decoder = None
    /\ packets = <<>>
    /\ wret = [op |-> "none", rendition |-> None, frame_tx_open |-> FALSE]

\* update_catalog(catalog): the stored catalog is replaced by the given one.
UpdateCatalog(c) ==
    /\ catalog' = c
    /\ highest' = IF highest = None \/ c.version > highest[1]
                  THEN Some(c.version) ELSE highest
    /\ UNCHANGED <<active_video_decoder, packets, wret>>
    /\ UNCHANGED notViewer

\* The packet sender new() returned: one more packet enters the channel.
FeedPacket(track_name, is_keyframe) ==
    /\ Len(packets) < MaxPackets
    /\ packets' = Append(packets, EncodedPacket(track_name, is_keyframe))
    /\ UNCHANGED <<catalog, highest, active_video_decoder, wret>>
    /\ UNCHANGED notViewer

\* watch_rendition(track_name, config): the existing decoder handle is taken
\* and dropped, the new handle is stored and a WatchTrack is returned whose
\* frame sender is dropped when the call returns.
WatchRendition(track_name) ==
    /\ active_video_decoder' = Some(track_name)
    /\ wret' = [op |-> "watch_rendition", rendition |-> Some(track_name),
                frame_tx_open |-> FALSE]
    /\ UNCHANGED <<catalog, highest, packets>>
    /\ UNCHANGED notViewer

\* stop_watch(): the decoder handle is taken and told to shut down.
StopWatch ==
    /\ active_video_decoder' = None
    /\ wret' = [op |-> "stop_watch", rendition |-> None, frame_tx_open |-> FALSE]
    /\ UNCHANGED <<catalog, highest, packets>>
    /\ UNCHANGED notViewer

(***************************************************************************)
(* publish.rs: BroadcastCatalog and PublishBroadcast.                      *)
(***************************************************************************)
\* mpsc::channel(8): the capacity of the publisher's catalog channel.
CatalogChannelCapacity == 8

\* set_video without `self.version += 1`.
CatalogSetVideoNoVersion(c, video) == [c EXCEPT !.video = video]

\* BroadcastCatalog::set_video.
CatalogSetVideo(c, video) == [c EXCEPT !.video = video, !.version = @ + 1]

\* BroadcastCatalog::set_audio.
CatalogSetAudio(c, audio) == [c EXCEPT !.audio = audio, !.version = @ + 1]

\* publish_catalog: catalog_tx.try_send(catalog).ok(), a full channel drops it.
PublishCatalog(q, c) ==
    IF Len(q) < CatalogChannelCapacity THEN Append(q, c) ELSE q

\* PublishBroadcast::new().
InitPublisher ==
    /\ pcatalog = DefaultCatalog
    /\ catalog_rx = <<>>
    /\ video_renditions = None
    /\ audio_renditions = None
    /\ active_video_encoders = {}
    /\ active_audio_encoders = {}

\* PublishBroadcast::set_video(renditions): the video encoders are stopped,
\* the catalog is changed and published.  The version is a u32; the
\* specifications stop the calls long before it wraps.
SetVideo(renditions) ==
    /\ active_video_encoders' = {}
    /\ pcatalog' = CatalogSetVideo(pcatalog, renditions)
    /\ video_renditions' = renditions
    /\ catalog_rx' = PublishCatalog(catalog_rx, pcatalog')
    /\ UNCHANGED <<audio_renditions, active_audio_encoders>>
    /\ UNCHANGED notPublisher

\* PublishBroadcast::set_audio(renditions).
SetAudio(renditions) ==
    /\ active_audio_encoders' = {}
    /\ pcatalog' = CatalogSetAudio(pcatalog, renditions)
    /\ audio_renditions' = renditions
    /\ catalog_rx' = PublishCatalog(catalog_rx, pcatalog')
    /\ UNCHANGED <<video_renditions, active_video_encoders>>
    /\ UNCHANGED notPublisher

\* PublishBroadcast::start_video_encoder(track_name), where it returns Ok.
StartVideoEncoder(track_name) ==
    /\ video_renditions # None
    /\ track_name \in video_renditions[1]
    /\ active_video_encoders' = active_video_encoders \cup {track_name}
    /\ UNCHANGED <<pcatalog, catalog_rx, video_renditions, audio_renditions,
                   active_audio_encoders>>
    /\ UNCHANGED notPublisher

\* PublishBroadcast::start_audio_encoder(track_name), where it returns Ok.
StartAudioEncoder(track_name) ==
    /\ audio_renditions # None
    /\ track_name \in audio_renditions[1]
    /\ active_audio_encoders' = active_audio_encoders \cup {track_name}
    /\ UNCHANGED <<pcatalog, catalog_rx, video_renditions, audio_renditions,
                   active_video_encoders>>
    /\ UNCHANGED notPublisher

(***************************************************************************)
(* live_streaming.rs: VideoQuality and ConnectionStats.                    *)
(***************************************************************************)
\* VideoQuality::all(): the qualities from lowest to highest.
VideoQualityAll == <<"P180", "P360", "P720", "P1080">>

\* VideoQuality::bitrate_kbps.
BitrateKbps(q) ==
    CASE q = "P180" -> 300
      [] q = "P360" -> 800
      [] q = "P720" -> 2500
      [] q = "P1080" -> 5000

\* The samples given to update_bandwidth (bytes per second) and update_rtt.
\* The fields are u64; sums of these samples stay far below its limit.
BandwidthSamples == {0, 12792000, 12800000, 40000000, 80000000}
RttSamples == {0, 800}

\* update_quality_score: the three sub-scores; packet_loss stays 0.0.
QualityScore(rtt_ms, bandwidth_bps) ==
    LET rtt_score == IF rtt_ms < 50 THEN 100
                     ELSE IF rtt_ms < 100 THEN 80
                     ELSE IF rtt_ms < 200 THEN 60
                     ELSE IF rtt_ms < 500 THEN 40
                     ELSE 20
        bandwidth_score == IF bandwidth_bps > 5000000 THEN 100
                           ELSE IF bandwidth_bps > 2500000 THEN 80
                           ELSE IF bandwidth_bps > 1000000 THEN 60
                           ELSE IF bandwidth_bps > 500000 THEN 40
                           ELSE 20
        loss_score == 100
    IN (rtt_score + bandwidth_score + loss_score) \div 3

\* ConnectionStats::new().
InitStats ==
    /\ stats = [bandwidth_bps |-> 0, rtt_ms |-> 0, quality_score |-> 0,
                last_updated |-> 0]
    /\ stat_updates = 0
    /\ qret = [op |-> "new"]

\* update_bandwidth(bps): exponential moving average, then the score.
UpdateBandwidth(bps) ==
    /\ stat_updates < MaxUpdates
    /\ LET bw == (stats.bandwidth_bps * 7 + bps) \div 8
       IN stats' = [stats EXCEPT !.bandwidth_bps = bw,
                                 !.quality_score = QualityScore(stats.rtt_ms, bw),
                                 !.last_updated = now \div 1000]
    /\ stat_updates' = stat_updates + 1
    /\ qret' = [op |-> "update_bandwidth"]
    /\ UNCHANGED notStats

\* update_rtt(rtt_ms): exponential moving average, then the score.
UpdateRtt(rtt_ms) ==
    /\ stat_updates < MaxUpdates
    /\ LET rtt == (stats.rtt_ms * 7 + rtt_ms) \div 8
       IN stats' = [stats EXCEPT !.rtt_ms = rtt,
                                 !.quality_score = QualityScore(rtt, stats.bandwidth_bps),
                                 !.last_updated = now \div 1000]
    /\ stat_updates' = stat_updates + 1
    /\ qret' = [op |-> "update_rtt"]
    /\ UNCHANGED notStats

\* The recommendation with the headroom factor left out.
RecommendedQualityNoHeadroom(s) ==
    LET bandwidth_kbps == s.bandwidth_bps \div 1000
    IN IF bandwidth_kbps >= BitrateKbps("P1080") THEN "P1080"
       ELSE IF bandwidth_kbps >= BitrateKbps("P720") THEN "P720"
       ELSE IF bandwidth_kbps >= BitrateKbps("P360") THEN "P360"
       ELSE "P180"

\* ConnectionStats::recommended_quality.
RecommendedQualityOf(s) ==
    LET bandwidth_kbps == s.bandwidth_bps \div 1000
    IN IF bandwidth_kbps >= BitrateKbps("P1080") * 2 THEN "P1080"
       ELSE IF bandwidth_kbps >= BitrateKbps("P720") * 2 THEN "P720"
       ELSE IF bandwidth_kbps >= BitrateKbps("P360") * 2 THEN "P360"
       ELSE "P180"

\* recommended_quality(), called on the current stats.
RecommendedQuality ==
    /\ qret' = [op |-> "recommended_quality", value |-> RecommendedQualityOf(stats)]
    /\ UNCHANGED <<stats, stat_updates>>
    /\ UNCHANGED notStats

(***************************************************************************)
(* live_streaming.rs: LiveTicket and its text form "name@base32(id)".      *)
(* Strings are sequences of one-character strings.                         *)
(***************************************************************************)
\* Result<T>.
Ok(v) == [ok |-> TRUE, value |-> v]
Err(e) == [ok |-> FALSE, error |-> e]

\* [u8; 32]: the length of an endpoint id.
EndpointIdLen == 32

\* The RFC 4648 base32 alphabet of data_encoding::BASE32_NOPAD.
Base32Alphabet ==
    <<"A", "B", "C", "D", "E", "F", "G", "H", "I", "J", "K", "L", "M", "N", "O", "P",
      "Q", "R", "S", "T", "U", "V", "W", "X", "Y", "Z", "2", "3", "4", "5", "6", "7">>

UpperLetters ==
    <<"A", "B", "C", "D", "E", "F", "G", "H", "I", "J", "K", "L", "M", "N", "O", "P",
      "Q", "R", "S", "T", "U", "V", "W", "X", "Y", "Z">>
LowerLetters ==
    <<"a", "b", "c", "d", "e", "f", "g", "h", "i", "j", "k", "l", "m", "n", "o", "p",
      "q", "r", "s", "t", "u", "v", "w", "x", "y", "z">>

\* str::to_lowercase and str::to_uppercase, on the characters used here.
ToLowercase(s) ==
    [k \in 1..Len(s) |->
        IF \E i \in 1..26 : UpperLetters[i] = s[k]
        THEN LowerLetters[CHOOSE i \in 1..26 : UpperLetters[i] = s[k]]
        ELSE s[k]]
ToUppercase(s) ==
    [k \in 1..Len(s) |->
        IF \E i \in 1..26 : LowerLetters[i] = s[k]
        THEN UpperLetters[CHOOSE i \in 1..26 : LowerLetters[i] = s[k]]
        ELSE s[k]]

\* Bit k (from 1, most significant first) of a byte sequence; 0 past its end.
ByteBit(bytes, k) ==
    IF k > 8 * Len(bytes) THEN 0
    ELSE (bytes[(k - 1) \div 8 + 1] \div (2 ^ (7 - ((k - 1) % 8)))) % 2

\* BASE32_NOPAD.encode: five bits per character, the last one zero-filled.
Base32Encode(bytes) ==
    [j \in 1..((8 * Len(bytes) + 4) \div 5) |->
        Base32Alphabet[1 + ByteBit(bytes, 5 * j - 4) * 16 + ByteBit(bytes, 5 * j - 3) * 8
                         + ByteBit(bytes, 5 * j - 2) * 4 + ByteBit(bytes, 5 * j - 1) * 2
                         + ByteBit(bytes, 5 * j)]]

\* The value (0..31) of a character of the alphabet.
Base32Value(c) == (CHOOSE i \in 1..32 : Base32Alphabet[i] = c) - 1

\* Bit k (from 1) of the bits a base32 text stands for.
CharBit(s, k) == (Base32Value(s[(k - 1) \div 5 + 1]) \div (2 ^ (4 - ((k - 1) % 5)))) % 2

\* BASE32_NOPAD.decode: fails on a character outside the alphabet, on a
\* length no encoding has and on non-zero trailing bits.
Base32Decode(s) ==
    LET nbytes == (5 * Len(s)) \div 8 IN
    IF \E k \in 1..Len(s) : ~(\E i \in 1..32 : Base32Alphabet[i] = s[k])
    THEN Err("symbol")
    ELSE IF 5 * Len(s) - 8 * nbytes >= 5 THEN Err("length")
    ELSE IF \E k \in (8 * nbytes + 1)..(5 * Len(s)) : CharBit(s, k) # 0
    THEN Err("trailing")
    ELSE Ok([b \in 1..nbytes |->
               CharBit(s, 8 * b - 7) * 128 + CharBit(s, 8 * b - 6) * 64
             + CharBit(s, 8 * b - 5) * 32 + CharBit(s, 8 * b - 4) * 16
             + CharBit(s, 8 * b - 3) * 8 + CharBit(s, 8 * b - 2) * 4
             + CharBit(s, 8 * b - 1) * 2 + CharBit(s, 8 * b)])

\* The endpoint ids (public keys) of the peers, as bytes.
EndpointIds ==
    {[i \in 1..EndpointIdLen |-> 42], [i \in 1..EndpointIdLen |-> 0],
     [i \in 1..EndpointIdLen |-> 255], [i \in 1..EndpointIdLen |-> (37 * i) % 256]}

\* The broadcast names tickets are made for.
TicketNames ==
    {<<>>, <<"c", "a", "m">>, <<"M", "y">>, <<"@">>, <<"a", "@", "b">>,
     <<"a", "@", "@">>, <<"7", "@", "a", "a">>}

\* LiveTicket::new.
LiveTicket(broadcast_name, endpoint_id) ==
    [broadcast_name |-> broadcast_name, endpoint_id |-> endpoint_id]

\* LiveTicket::serialize: format!("{}@{}", name, base32(id).to_lowercase()).
Serialize(t) ==
    t.broadcast_name \o <<"@">> \o ToLowercase(Base32Encode(t.endpoint_id))

\* str::split_once('@'): the split at the first '@'.
SplitOnce(input) ==
    IF \E k \in 1..Len(input) : input[k] = "@"
    THEN LET k == CHOOSE i \in 1..Len(input) :
                     input[i] = "@" /\ \A j \in 1..(i - 1) : input[j] # "@"
         IN Some(<<SubSeq(input, 1, k - 1), SubSeq(input, k + 1, Len(input))>>)
    ELSE None

\* str::rsplit_once('@'): the split at the last '@'.
RSplitOnce(input) ==
    IF \E k \in 1..Len(input) : input[k] = "@"
    THEN LET k == CHOOSE i \in 1..Len(input) :
                     input[i] = "@" /\ \A j \in (i + 1)..Len(input) : input[j] # "@"
         IN Some(<<SubSeq(input, 1, k - 1), SubSeq(input, k + 1, Len(input))>>)
    ELSE None

\* PublicKey::from_bytes: the keys of the peers are the valid ones.
PublicKeyFromBytes(bytes) ==
    IF bytes \in EndpointIds THEN Ok(bytes) ELSE Err("key")

\* LiveTicket::deserialize.
Deserialize(input) ==
    LET parts == RSplitOnce(input) IN
    IF parts = None THEN Err("Invalid ticket format: missing '@'")
    ELSE LET name == parts[1][1]
             id_bytes == Base32Decode(ToUppercase(parts[1][2]))
         IN IF ~id_bytes.ok THEN Err("Invalid endpoint ID encoding")
            ELSE IF Len(id_bytes.value) # EndpointIdLen
            THEN Err("Invalid endpoint ID length")
            ELSE IF ~PublicKeyFromBytes(id_bytes.value).ok THEN Err("Invalid public key")
            ELSE Ok(LiveTicket(name, PublicKeyFromBytes(id_bytes.value).value))

\* The texts deserialize is given that no ticket serializes to.
TicketInputs ==
    {<<"c", "a", "m">>, <<"c", "@", "1">>, <<"c", "@", "a">>, <<"c", "@", "a", "a">>,
     <<"@">>}

InitTicket ==
    /\ ticket = None
    /\ tret = [op |-> "none"]

\* LiveTicket::new(broadcast_name, endpoint_id).
NewTicket(broadcast_name, endpoint_id) ==
    /\ ticket' = Some(LiveTicket(broadcast_name, endpoint_id))
    /\ tret' = [op |-> "new"]
    /\ UNCHANGED notTicket

\* ticket.serialize().
SerializeTicket ==
    /\ ticket # None
    /\ tret' = [op |-> "serialize", value |-> Serialize(ticket[1])]
    /\ UNCHANGED ticket
    /\ UNCHANGED notTicket

\* LiveTicket::deserialize(&serialized), on the text serialize returned.
DeserializeTicket ==
    /\ tret.op = "serialize"
    /\ tret' = [op |-> "deserialize", input |-> tret.value,
                value |-> Deserialize(tret.value)]
    /\ UNCHANGED ticket
    /\ UNCHANGED notTicket

\* LiveTicket::deserialize(input), on a text from elsewhere.
DeserializeInput(input) ==
    /\ tret' = [op |-> "deserialize_input", input |-> input,
                value |-> Deserialize(input)]
    /\ UNCHANGED ticket
    /\ UNCHANGED notTicket

(***************************************************************************)
(* publish_broadcast.rs: VideoTrackWriter and AudioTrackWriter.  A track   *)
(* is the sequence of its groups, a group the sequence of frames written   *)
(* to it; current_group is None or Some(index of the group in the track).  *)
(***************************************************************************)
\* The number of frames after which the audio writer starts a new group.
AudioGroupFrames == 20

\* EncodedVideoFrame: pts is the index of the frame in the input; a keyframe
\* carries two bytes, another frame one.
EncodedVideoFrame(pts, is_keyframe) ==
    [pts |-> pts, is_keyframe |-> is_keyframe, size |-> IF is_keyframe THEN 2 ELSE 1]

\* EncodedAudioFrame.
EncodedAudioFrame(pts) == [pts |-> pts, size |-> 1]

\* VideoTrackWriter::new / AudioTrackWriter::new.
NewWriter ==
    [groups |-> <<>>, current_group |-> None, frames_written |-> 0,
     bytes_written |-> 0]

\* TrackProducer::append_group stored into current_group.
AppendGroup(w) ==
    [w EXCEPT !.groups = Append(w.groups, <<>>),
              !.current_group = Some(Len(w.groups) + 1)]

\* group.write_frame(frame.data) on the current group, and the counters.
WriteToCurrent(w, frame) ==
    [w EXCEPT !.groups[w.current_group[1]] = Append(@, frame),
              !.frames_written = @ + 1,
              !.bytes_written = @ + frame.size]

\* write_frame of the video writer with the keyframe branch left out.
VideoWriteFrameNoKeyframeGroup(w, frame) ==
    LET w1 == IF w.current_group = None THEN AppendGroup(w) ELSE w
    IN WriteToCurrent(w1, frame)

\* VideoTrackWriter::write_frame: the writer after the call.
VideoWriteFrameData(w, frame) ==
    LET w1 == IF frame.is_keyframe THEN AppendGroup(w) ELSE w
        w2 == IF w1.current_group = None THEN AppendGroup(w1) ELSE w1
    IN WriteToCurrent(w2, frame)

\* write_frame of the audio writer counting from one:
\* (self.frames_written + 1) % 20 == 0.
AudioWriteFrameOffByOne(w, frame) ==
    LET start_new_group ==
            w.current_group = None \/ (w.frames_written + 1) % AudioGroupFrames = 0
        w1 == IF start_new_group THEN AppendGroup(w) ELSE w
    IN WriteToCurrent(w1, frame)

\* AudioTrackWriter::write_frame: the writer after the call.
AudioWriteFrameData(w, frame) ==
    LET start_new_group ==
            w.current_group = None \/ w.frames_written % AudioGroupFrames = 0
        w1 == IF start_new_group THEN AppendGroup(w) ELSE w
    IN WriteToCurrent(w1, frame)

InitWriter ==
    /\ video_writer = NewWriter
    /\ video_frames = <<>>
    /\ audio_writer = NewWriter
    /\ audio_frames = <<>>

\* VideoTrackWriter::write_frame(frame).
VideoWriteFrame(is_keyframe) ==
    LET frame == EncodedVideoFrame(Len(video_frames), is_keyframe) IN
    /\ Len(video_frames) < MaxVideoFrames
    /\ video_writer' = VideoWriteFrameData(video_writer, frame)
    /\ video_frames' = Append(video_frames, frame)
    /\ UNCHANGED <<audio_writer, audio_frames>>
    /\ UNCHANGED notWriter

\* AudioTrackWriter::write_frame(frame).
AudioWriteFrame ==
    LET frame == EncodedAudioFrame(Len(audio_frames)) IN
    /\ Len(audio_frames) < MaxAudioFrames
    /\ audio_writer' = AudioWriteFrameData(audio_writer, frame)
    /\ audio_frames' = Append(audio_frames, frame)
    /\ UNCHANGED <<video_writer, video_frames>>
    /\ UNCHANGED notWriter

(***************************************************************************)
(* live_streaming.rs: the u64 arithmetic of update_rtt / update_bandwidth. *)
(* A u64 is a sequence of four 16-bit limbs, lowest first; a sum that may  *)
(* leave the u64 range is carried in a fifth limb.                         *)
(***************************************************************************)
\* One limb holds 16 bits.
LimbBase == 65536

\* The u64 of four equal limbs and the u64 of a number below 2^16.
U64Max == <<65535, 65535, 65535, 65535>>
U64Small(n) == <<n, 0, 0, 0>>

\* a <= b for numbers of the same number of limbs.
LimbsLeq(a, b) ==
    \/ a = b
    \/ \E i \in 1..Len(a) : /\ a[i] < b[i]
                            /\ \A j \in (i + 1)..Len(a) : a[j] = b[j]

\* old * 7 + sample without any wrapping: five limbs.
MulSevenAdd(old, sample) ==
    LET t1 == old[1] * 7 + sample[1]
        t2 == old[2] * 7 + sample[2] + (t1 \div LimbBase)
        t3 == old[3] * 7 + sample[3] + (t2 \div LimbBase)
        t4 == old[4] * 7 + sample[4] + (t3 \div LimbBase)
    IN <<t1 % LimbBase, t2 % LimbBase, t3 % LimbBase, t4 % LimbBase,
         t4 \div LimbBase>>

\* x / 8 for x of five limbs.
DivEight(x) ==
    LET low(i) == x[i] \div 8
        high(i) == (x[i + 1] % 8) * (LimbBase \div 8)
    IN <<low(1) + high(1), low(2) + high(2), low(3) + high(3),
         low(4) + high(4), low(5)>>

\* (old * 7 + sample) / 8 as a number: it always fits four limbs.
ExactAverage(old, sample) == SubSeq(DivEight(MulSevenAdd(old, sample)), 1, 4)

\* `old * 7 + sample` leaves the u64 range.
Overflows(old, sample) == MulSevenAdd(old, sample)[5] # 0

\* (old * 7 + sample) / 8 in wrapping u64 arithmetic (overflow checks off):
\* the fifth limb of the sum is lost before the division.
WrappingAverage(old, sample) ==
    LET sum == MulSevenAdd(old, sample)
    IN SubSeq(DivEight([sum EXCEPT ![5] = 0]), 1, 4)

\* The samples given to the 64-bit update_bandwidth and update_rtt: 0, 1000,
\* the largest u64 whose sevenfold fits a u64, and u64::MAX.
WideSamples ==
    {U64Small(0), U64Small(1000), <<9362, 37449, 18724, 9362>>, U64Max}

\* ConnectionStats::new() (Default): both numbers are 0.
InitWide ==
    /\ wide = [bandwidth_bps |-> U64Small(0), rtt_ms |-> U64Small(0)]
    /\ wide_updates = 0
    /\ eret = [op |-> "new", panicked |-> FALSE]

\* What `self.field = (self.field * 7 + sample) / 8` leaves in the field and
\* whether the call panicked.  An overflowing sum panics before the field is
\* assigned where overflow checks are on (debug profile) and wraps where they
\* are off (release profile).
AverageOutcomes(old, sample) ==
    IF Overflows(old, sample)
    THEN {[value |-> old, panicked |-> TRUE],
          [value |-> WrappingAverage(old, sample), panicked |-> FALSE]}
    ELSE {[value |-> ExactAverage(old, sample), panicked |-> FALSE]}

\* update_bandwidth(bps) on u64 operands.
UpdateBandwidthWide(bps) ==
    /\ wide_updates < MaxUpdates
    /\ \E o \in AverageOutcomes(wide.bandwidth_bps, bps) :
          /\ wide' = [wide EXCEPT !.bandwidth_bps = o.value]
          /\ eret' = [op |-> "update_bandwidth", panicked |-> o.panicked]
    /\ wide_updates' = wide_updates + 1
    /\ UNCHANGED notWide

\* update_rtt(rtt_ms) on u64 operands.
UpdateRttWide(rtt_ms) ==
    /\ wide_updates < MaxUpdates
    /\ \E o \in AverageOutcomes(wide.rtt_ms, rtt_ms) :
          /\ wide' = [wide EXCEPT !.rtt_ms = o.value]
          /\ eret' = [op |-> "update_rtt", panicked |-> o.panicked]
    /\ wide_updates' = wide_updates + 1
    /\ UNCHANGED notWide

Init ==
    /\ InitStore /\ InitSched /\ InitNs /\ InitLive /\ InitSub /\ InitDirect
    /\ InitViewer /\ InitStats /\ InitTicket /\ InitWriter /\ InitPublisher
    /\ InitWide

\* The publisher side of the TrackStore.
NextStore ==
    \/ \E t \in TrackNames : GetOrCreateTrack(t)
    \/ \E t \in TrackNames : StartGroup(t)
    \/ \E t \in TrackNames, g \in GroupIds, s \in SubgroupIds : AddObject(t, g, s)

SpecStore == Init /\ [][NextStore]_vars

\* The publisher side of the TrackStore called with full track names that
\* differ in their namespace components and in their track name, a "/"
\* standing inside the track name of one of them.
SlashNames ==
    { [namespace |-> <<"a", "b">>, track_name |-> "c"],
      [namespace |-> <<"a">>, track_name |-> "b/c"] }
NextNames ==
    \/ \E t \in SlashNames : GetOrCreateTrack(t)
    \/ \E t \in SlashNames : StartGroup(t)
    \/ \E t \in SlashNames, g \in GroupIds, s \in SubgroupIds : AddObject(t, g, s)

SpecNames == Init /\ [][NextNames]_vars

\* The publisher side, with the history of returned objects sampled.
NextWatched ==
    \/ \E t \in TrackNames : GetOrCreateTrack(t)
    \/ \E t \in TrackNames : StartGroup(t)
    \/ \E t \in TrackNames, g \in GroupIds, s \in SubgroupIds : AddObjectWatched(t, g, s)

SpecWatched == Init /\ [][NextWatched]_vars

\* Publisher and subscribers that join at the live edge, in every group order.
NextLatest ==
    \/ \E t \in TrackNames : GetOrCreateTrack(t)
    \/ \E t \in TrackNames : StartGroup(t)
    \/ \E t \in TrackNames, g \in GroupIds, s \in SubgroupIds : AddObject(t, g, s)
    \/ \E t \in TrackNames, f \in LatestFilters, o \in GroupOrders : GetObjects(t, f, o)

SpecLatest == Init /\ [][NextLatest]_vars

\* Publisher and subscribers that name a position or a range (a fetch:
\* FetchRequest::new asks for GroupOrder::Ascending).
NextRange ==
    \/ \E t \in TrackNames : GetOrCreateTrack(t)
    \/ \E t \in TrackNames : StartGroup(t)
    \/ \E t \in TrackNames, g \in GroupIds, s \in SubgroupIds : AddObject(t, g, s)
    \/ \E t \in TrackNames, f \in RangeFilters : GetObjects(t, f, "Ascending")

SpecRange == Init /\ [][NextRange]_vars

\* Publisher and subscribers that choose the group order, with a filter of
\* every type.
NextOrder ==
    \/ \E t \in TrackNames : GetOrCreateTrack(t)
    \/ \E t \in TrackNames : StartGroup(t)
    \/ \E t \in TrackNames, g \in GroupIds, s \in SubgroupIds : AddObject(t, g, s)
    \/ \E t \in TrackNames, f \in OrderFilters, o \in GroupOrders : GetObjects(t, f, o)

SpecOrder == Init /\ [][NextOrder]_vars

\* The NamespaceManager.
NextNs ==
    \/ \E p \in NamespacePaths, a \in BOOLEAN : Announce(p, a)
    \/ \E p \in NamespacePaths : Subscribe(p)
    \/ \E p \in NamespacePaths, q \in NamespacePaths : NamespaceIsPrefix(p, q)

SpecNs == Init /\ [][NextNs]_vars

\* The Live actor, the connections and the application.
SessionIds == 0..(MaxSessions - 1)
NextLive ==
    \/ \E r \in Remotes : HandleConnection(r)
    \/ \E n \in BroadcastNames, p \in Producers : Publish(n, p)
    \/ \E n \in BroadcastNames : Unpublish(n)
    \/ Shutdown
    \/ ActorRecv
    \/ \E id \in SessionIds : ActorJoinNext(id)
    \/ ActorShutdown
    \/ DropLive
    \/ \E id \in SessionIds : SessionTaskCancelled(id)
    \/ \E id \in SessionIds : SessionTaskClosed(id)

SpecLive == Init /\ [][NextLive]_vars

\* The subscription: the two readers, run_subscriber and the handle.
NextSub ==
    \/ \E t \in SubTracks : ReaderCancelled(t)
    \/ \E t \in SubTracks, r \in {"group", "end"} : ReaderNextGroup(t, r)
    \/ \E t \in SubTracks, d \in FrameData : ReaderReadFrame(t, d)
    \/ \E t \in SubTracks : ReaderGroupEnd(t)
    \/ \E t \in SubTracks : ReaderSend(t)
    \/ SubscriberCancelled
    \/ \E t \in SubTracks : SubscriberJoinNext(t)
    \/ Stop
    \/ \E t \in SubTracks : Recv(t)
    \/ DropHandle

SpecSub == Init /\ [][NextSub]_vars

\* The subscription under the runtime's scheduling: run_subscriber is a
\* spawned task, woken by the cancellation; its cancelled() arm stays ready
\* from then on and the join_next() arm can be taken twice at most, so the
\* cancelled() arm is taken in the end.
SpecSubFair == SpecSub /\ WF_vars(SubscriberCancelled)

\* The same, with the join_next() arm of run_subscriber taken whenever a
\* finished reader waits in the JoinSet: the select! is woken by the task's
\* end.  Nothing obliges the application to call stop().
SpecSubJoinFair ==
    /\ SpecSubFair
    /\ \A t \in SubTracks : WF_vars(SubscriberJoinNext(t))

\* The direct streaming endpoint, its tasks and its peers.
StreamIndexes == 1..MaxMessages
NextDirect ==
    \/ \E p \in DirectPeers : conn[p] = "none" /\ AcceptConnection(p)
    \/ \E p \in DirectPeers : conn[p] = "none" /\ ConnectToPeer(p)
    \/ \E p \in DirectPeers : PeerSends(p)
    \/ \E p \in DirectPeers : AcceptBi(p)
    \/ \E p \in DirectPeers, i \in StreamIndexes : StreamRead(p, i)
    \/ \E p \in DirectPeers, i \in StreamIndexes : StreamFailed(p, i)
    \/ \E p \in DirectPeers, i \in StreamIndexes : StreamEmit(p, i)
    \/ \E p \in DirectPeers : PeerCloses(p)
    \/ \E p \in DirectPeers : DisconnectPeer(p)
    \/ \E p \in DirectPeers : HandleConnectionClosed(p)
    \/ PollEvents

SpecDirect == Init /\ [][NextDirect]_vars

\* The connections of the direct streaming endpoint, with peers that connect
\* again and with shutdown(); no stream is opened.
ConnectionIndexes == 1..(MaxConnections - 1)
NextConnections ==
    \/ \E p \in DirectPeers : AcceptConnection(p)
    \/ \E p \in DirectPeers : ConnectToPeer(p)
    \/ \E p \in DirectPeers : PeerCloses(p)
    \/ \E p \in DirectPeers, k \in ConnectionIndexes : OlderCloses(p, k)
    \/ \E p \in DirectPeers : DisconnectPeer(p)
    \/ \E p \in DirectPeers : HandleConnectionClosed(p)
    \/ \E p \in DirectPeers, k \in ConnectionIndexes :
          OlderHandleConnectionClosed(p, k)
    \/ ShutdownEndpoint
    \/ PollEvents

SpecConnections == Init /\ [][NextConnections]_vars

\* A handle_connection task is scheduled by the runtime until it returns:
\* once its connection is closed, accept_bi returns Err and the task runs its
\* last steps.
SpecConnectionsFair ==
    /\ SpecConnections
    /\ \A p \in DirectPeers : WF_vars(HandleConnectionClosed(p))
    /\ \A p \in DirectPeers, k \in ConnectionIndexes :
          WF_vars(OlderHandleConnectionClosed(p, k))

\* The PriorityScheduler and the clock.
NextSched ==
    \/ \E o \in SchedObjects, sp \in Priorities, ttl \in Ttls :
         Enqueue(o[1], o[2], sp, ttl)
    \/ Dequeue
    \/ QueueLen
    \/ \E th \in Priorities : DropLowPriority(th)
    \/ Tick

SpecSched == Init /\ [][NextSched]_vars

\* The viewer of subscribe.rs.
NextViewer ==
    \/ \E c \in Catalogs : UpdateCatalog(c)
    \/ \E t \in VideoTracks, k \in BOOLEAN : FeedPacket(t, k)
    \/ \E t \in VideoTracks : WatchRendition(t)
    \/ StopWatch

SpecViewer == Init /\ [][NextViewer]_vars

\* The ConnectionStats of one connection.
NextStats ==
    \/ \E bps \in BandwidthSamples : UpdateBandwidth(bps)
    \/ \E rtt \in RttSamples : UpdateRtt(rtt)
    \/ RecommendedQuality

SpecStats == Init /\ [][NextStats]_vars

\* The publisher side of the TrackStore while the wall clock runs.
NextRetention ==
    \/ \E t \in TrackNames : GetOrCreateTrack(t)
    \/ \E t \in TrackNames : StartGroup(t)
    \/ \E t \in TrackNames, g \in GroupIds, s \in SubgroupIds : AddObject(t, g, s)
    \/ Tick

SpecRetention == Init /\ [][NextRetention]_vars

\* LiveTicket and its text form.
NextTicket ==
    \/ \E n \in TicketNames, id \in EndpointIds : NewTicket(n, id)
    \/ SerializeTicket
    \/ DeserializeTicket
    \/ \E s \in TicketInputs : DeserializeInput(s)

SpecTicket == Init /\ [][NextTicket]_vars

\* The track writers of one broadcast.
NextWriter ==
    \/ \E k \in BOOLEAN : VideoWriteFrame(k)
    \/ AudioWriteFrame

SpecWriter == Init /\ [][NextWriter]_vars

\* The publisher of publish.rs.
NextPublisher ==
    \/ \E r \in VideoInfos : pcatalog.version < MaxVersion /\ SetVideo(r)
    \/ \E r \in AudioInfos : pcatalog.version < MaxVersion /\ SetAudio(r)
    \/ \E t \in VideoTracks : StartVideoEncoder(t)
    \/ \E t \in AudioTracks : StartAudioEncoder(t)

SpecPublisher == Init /\ [][NextPublisher]_vars

\* The publisher's catalog channel filled past its capacity: set_video and
\* set_audio are called up to MaxCatalogChanges times and nothing reads
\* catalog_rx (no code of the crate does).
NextCatalog ==
    \/ \E r \in {None, Some(VideoTracks)} :
          pcatalog.version < MaxCatalogChanges /\ SetVideo(r)
    \/ \E r \in {Some(AudioTracks)} :
          pcatalog.version < MaxCatalogChanges /\ SetAudio(r)

SpecCatalog == Init /\ [][NextCatalog]_vars

\* ConnectionStats fed samples of the whole u64 range.
NextWide ==
    \/ \E bps \in WideSamples : UpdateBandwidthWide(bps)
    \/ \E rtt \in WideSamples : UpdateRttWide(rtt)

SpecWide == Init /\ [][NextWide]_vars

Next ==
    \/ \E t \in TrackNames : GetOrCreateTrack(t)
    \/ \E t \in TrackNames : StartGroup(t)
    \/ \E t \in TrackNames, g \in GroupIds, s \in SubgroupIds : AddObject(t, g, s)
    \/ \E t \in TrackNames, f \in Filters, o \in GroupOrders : GetObjects(t, f, o)
    \/ \E t \in TrackNames, g \in GroupIds, s \in SubgroupIds : AddObjectWatched(t, g, s)
    \/ NextSched
    \/ NextNs
    \/ NextLive
    \/ NextSub
    \/ NextDirect
    \/ NextViewer
    \/ NextStats
    \/ NextTicket
    \/ NextWriter
    \/ NextPublisher
    \/ NextWide
    \/ NextNames
    \/ NextConnections
    \/ NextCatalog

Spec == Init /\ [][Next]_vars

(***************************************************************************)
(* Properties.                                                             *)
(***************************************************************************)
MaxOf(S) == CHOOSE x \in S : \A y \in S : y <= x

\* C1: for every track of the store, the group ids that the start_group
\* calls on it returned, in call order, are strictly increasing.
C1_MonotoneGroupIds ==
    \A key \in DOMAIN started :
        \A i, j \in DOMAIN started[key] :
            i < j => started[key][i] < started[key][j]

\* Three start_group calls were made on a track (one group already evicted).
C1_Witness ==
    \E key \in DOMAIN started :
        /\ Len(started[key]) >= 3
        /\ ret.op = "start_group"

\* C2: no two objects returned by add_object on a track carry the same
\* (group_id, subgroup_id, object_id): the object an add_object call returns
\* differs from every object returned earlier (`watched` is any one of them).
C2_UniqueObjectIds ==
    [][ (ret'.op = "add_object" /\ ret'.value # None)
          => watched[ret'.key] # Some(Triple(ret'.value[1])) ]_vars

\* C3: a track never holds more than max_groups groups, and once
\* max_groups + k start_group calls (k >= 0) were made on it, it holds exactly
\* max_groups groups: the max_groups most recently started ones.
C3_Retention ==
    \A key \in DOMAIN tracks :
        LET n == Len(started[key])
            held == DOMAIN tracks[key].groups
        IN /\ Cardinality(held) <= MaxGroups
           /\ n >= MaxGroups =>
                /\ Cardinality(held) = MaxGroups
                /\ held = { started[key][i] : i \in (n - MaxGroups + 1)..n }

\* More than max_groups groups were started on a track, and objects were
\* stored in it.
C3_Witness ==
    \E key \in DOMAIN tracks :
        /\ Len(started[key]) > MaxGroups
        /\ ret.op = "start_group"
        /\ \E g \in DOMAIN tracks[key].groups :
             GroupObjects(tracks[key].groups[g]) # {}

\* The number of occurrences of x in the sequence q.
Count(x, q) == Cardinality({ i \in DOMAIN q : q[i] = x })

\* C4: in every reachable state of the scheduler the pending queue is sorted
\* by effective priority, ascending.
C4_QueueSorted ==
    \A i, j \in DOMAIN pending :
        i < j => pending[i].effective_priority <= pending[j].effective_priority

\* An enqueue overflowed a queue that holds items of different priorities.
C4_Witness ==
    /\ out.op = "enqueue"
    /\ out.dropped # <<>>
    /\ Len(pending) = MaxQueueSize
    /\ pending[1].effective_priority < pending[Len(pending)].effective_priority

\* C5: dequeue returns None exactly when no queued item is unexpired, and
\* otherwise the object of a queued, unexpired item whose effective priority
\* is minimal among the unexpired queued items (so an unexpired o_hi queued
\* with p_hi is never passed over for an o_lo queued with p_lo > p_hi).
C5_DequeueMinimal ==
    [][ out'.op = "dequeue" =>
          LET live == { i \in DOMAIN pending : ~IsExpired(pending[i].object, now) }
          IN /\ (out'.value = None) <=> (live = {})
             /\ out'.value # None =>
                  \E i \in live :
                     /\ out'.delivery = Some(pending[i])
                     /\ out'.value = Some(pending[i].object)
                     /\ \A j \in live : pending[i].effective_priority
                                          <= pending[j].effective_priority ]_vars

\* dequeue returned an object and left a lower-priority item queued.
C5_Witness ==
    /\ out.op = "dequeue"
    /\ out.delivery # None
    /\ pending # <<>>
    /\ out.delivery[1].effective_priority < pending[1].effective_priority

\* C6: the object dequeue returns has no expires_at earlier than the time of
\* the dequeue, and dequeue leaves no expired item in the queue.
C6_NoExpiredDequeued ==
    out.op = "dequeue" =>
        /\ out.value # None =>
             ~(out.value[1].expires_at # None /\ out.value[1].expires_at[1] < now)
        /\ \A i \in DOMAIN pending :
             ~(pending[i].object.expires_at # None
               /\ pending[i].object.expires_at[1] < now)

\* dequeue removed an expired item and returned an object with a deadline
\* that has not passed.
C6_Witness ==
    /\ out.op = "dequeue"
    /\ out.expired > 0
    /\ out.value # None
    /\ out.value[1].expires_at # None

\* C7: the queue never holds more than max_queue_size items; an enqueue keeps
\* every item but those pushed out by the capacity, drops an item only when
\* the capacity is exceeded, and no retained item has a numerically greater
\* effective priority than a dropped one.
C7_BoundedQueue ==
    [][ /\ Len(pending') <= MaxQueueSize
        /\ out'.op = "enqueue" =>
             LET d == out'.delivery
                 items == Range(pending) \cup {d}
                 droppedCount(x) == Count(x, pending) + (IF x = d THEN 1 ELSE 0)
                                    - Count(x, pending')
             IN /\ Range(pending') \subseteq items
                /\ \A x \in items : droppedCount(x) >= 0
                /\ Len(pending') = IF Len(pending) + 1 <= MaxQueueSize
                                   THEN Len(pending) + 1 ELSE MaxQueueSize
                /\ \A x \in items :
                     droppedCount(x) > 0 =>
                        \A r \in Range(pending') :
                           r.effective_priority <= x.effective_priority ]_vars

\* An enqueue into a full queue kept the new item and pushed out an older one.
C7_Witness ==
    /\ out.op = "enqueue"
    /\ out.dropped # <<>>
    /\ out.delivery \notin Range(out.dropped)
    /\ out.delivery \in Range(pending)

\* The state follows a get_objects call with a filter of the given type on an
\* existing track.
Queried(type) ==
    /\ ret.op = "get_objects"
    /\ ret.params.filter.type = type
    /\ ret.key \in DOMAIN tracks

\* The sequence `value` lists exactly the objects of the set S, each once.
Lists(value, S) == Range(value) = S /\ Len(value) = Cardinality(S)

\* The unexpired objects of a set.
Unexpired(S) == { o \in S : ~IsExpired(o, now) }

C9_LatestObject ==
    (Queried("LatestObject") /\ AllObjects(tracks[ret.key]) # {}) =>
        \E o \in AllObjects(tracks[ret.key]) :
            /\ \A y \in AllObjects(tracks[ret.key]) : CmpLe(y, o)
            /\ ret.value = <<o>>

\* C10: AbsoluteRange(g0, o0, g1, o1?) returns exactly the retained objects
\* (g, o) with (g > g0 or (g = g0 and o >= o0)) and (g < g1 or (g = g1 and
\* (o1 is None or o <= o1))), in ascending (group_id, object_id) order under
\* GroupOrder::Ascending.
C10_AbsoluteRange ==
    Queried("AbsoluteRange") =>
        LET f == ret.params.filter
            expected ==
              { o \in AllObjects(tracks[ret.key]) :
                  /\ \/ o.group_id > f.start_group
                     \/ o.group_id = f.start_group /\ o.object_id >= f.start_object
                  /\ \/ o.group_id < f.end_group
                     \/ /\ o.group_id = f.end_group
                        /\ (f.end_object = None \/ o.object_id <= f.end_object[1]) }
        IN /\ Lists(ret.value, expected)
           /\ ret.params.group_order = "Ascending" =>
                \A i, j \in DOMAIN ret.value :
                    i < j => /\ CmpLe(ret.value[i], ret.value[j])
                             /\ ret.value[i] # ret.value[j]

\* The fetch scenario in small: the range from the second object of one
\* group to the end of the next yields the tail of the first group and all
\* of the second, and a range with an end object cuts the last group.
C10_Witness ==
    /\ Queried("AbsoluteRange")
    /\ ret.params.filter.start_object = 1
    /\ ret.params.filter.end_group = ret.params.filter.start_group + 1
    /\ ret.params.filter.end_object = None
    /\ Len(ret.value) = 3
    /\ ret.value[1].group_id = ret.params.filter.start_group
    /\ ret.value[3].group_id = ret.params.filter.end_group

\* C11: AbsoluteStart(g0, o0) returns exactly the retained objects (g, o) of
\* the track with g > g0, or g = g0 and o >= o0, each of them once.
C11_AbsoluteStart ==
    Queried("AbsoluteStart") =>
        LET f == ret.params.filter
            expected ==
              { o \in AllObjects(tracks[ret.key]) :
                  \/ o.group_id > f.start_group
                  \/ o.group_id = f.start_group /\ o.object_id >= f.start_object }
        IN Lists(ret.value, expected)

\* A subscriber joins in the middle of a group: AbsoluteStart(g0, 1) yields
\* the second object of group g0 and an object of a later group whose
\* object_id is below the start object, while the first object of g0 is
\* left out.
C11_Witness ==
    /\ Queried("AbsoluteStart")
    /\ ret.params.filter.start_object = 1
    /\ \E i, j \in DOMAIN ret.value :
         /\ ret.value[i].group_id = ret.params.filter.start_group
         /\ ret.value[i].object_id = 1
         /\ ret.value[j].group_id > ret.params.filter.start_group
         /\ ret.value[j].object_id = 0
    /\ \E o \in AllObjects(tracks[ret.key]) :
         /\ o.group_id = ret.params.filter.start_group
         /\ o.object_id = 0
         /\ o \notin Range(ret.value)

\* C12: for every filter, the list get_objects returns is sorted by
\* (group_id, object_id), ascending when group_order is Ascending or
\* PublisherDefault and descending when it is Descending, and holds no object
\* that is expired at the time of the query.
C12_SortedUnexpired ==
    (ret.op = "get_objects" /\ ret.key \in DOMAIN tracks) =>
        /\ \A i, j \in DOMAIN ret.value :
              i < j =>
                IF ret.params.group_order \in {"Ascending", "PublisherDefault"}
                THEN CmpLe(ret.value[i], ret.value[j])
                ELSE CmpLe(ret.value[j], ret.value[i])
        /\ \A i \in DOMAIN ret.value : ~IsExpired(ret.value[i], now)

\* A Descending query returned objects of two groups, and two objects of one
\* group: the newer group comes first, and within the group the higher
\* object_id.
C12_Witness ==
    /\ ret.op = "get_objects"
    /\ ret.key \in DOMAIN tracks
    /\ ret.params.group_order = "Descending"
    /\ Len(ret.value) >= 3
    /\ ret.value[1].group_id > ret.value[Len(ret.value)].group_id
    /\ \E i \in DOMAIN ret.value :
         /\ i + 1 \in DOMAIN ret.value
         /\ ret.value[i].group_id = ret.value[i + 1].group_id
         /\ ret.value[i].object_id > ret.value[i + 1].object_id

\* A group that accepts no more objects: complete (marked so, or a later
\* group has been started), evicted or never started.
GroupClosed(data, group_id) ==
    \/ group_id \notin DOMAIN data.groups
    \/ data.groups[group_id].is_complete
    \/ group_id + 1 < data.next_group_id

\* C13: add_object returns None and leaves the store unchanged if the track
\* does not exist or the target group is closed; otherwise it returns the
\* object with the next object_id of that group and the object is stored in
\* the group.
C13_AddObjectFails ==
    [][ \A t \in TrackNames, g \in GroupIds, s \in SubgroupIds :
          AddObject(t, g, s) =>
            IF ToPath(t) \notin DOMAIN tracks
            THEN ret'.value = None /\ tracks' = tracks
            ELSE IF GroupClosed(tracks[ToPath(t)], g)
                 THEN ret'.value = None /\ tracks' = tracks
                 ELSE LET obj == NewObject(g, s, NextObjectId(tracks[ToPath(t)], g))
                      IN /\ ret'.value = Some(obj)
                         /\ obj \in GroupObjects(tracks'[ToPath(t)].groups[g]) ]_vars

\* A retained group that is complete: marked so (by an End-of-Group marker),
\* or a later group has been started.
GroupComplete(data, group_id) ==
    /\ group_id \in DOMAIN data.groups
    /\ \/ data.groups[group_id].is_complete
       \/ group_id + 1 < data.next_group_id

\* C14: once a group is complete, no operation changes the set of objects
\* stored in it: every step leaves the objects of a complete group as they
\* were, for as long as the group is retained.
C14_CompleteGroupImmutable ==
    [][ \A key \in DOMAIN tracks :
          \A g \in DOMAIN tracks[key].groups :
            (GroupComplete(tracks[key], g) /\ g \in DOMAIN tracks'[key].groups)
              => GroupObjects(tracks'[key].groups[g])
                   = GroupObjects(tracks[key].groups[g]) ]_vars

\* The namespaces the callers can name.
Namespaces == { FromStr(p) : p \in NamespacePaths }

C19_ShutdownClosesSessions ==
    [][ shutdown_token =>
          /\ \A id \in DOMAIN session_tasks :
                session_tasks[id].state = "running" =>
                  /\ id \in DOMAIN session_tasks'
                  /\ session_tasks'[id].state \in {"running", "closed", "ended"}
          /\ \A r \in DOMAIN sessions' :
                /\ r \in DOMAIN sessions
                /\ sessions'[r].id = sessions[r].id ]_vars

\* C17: for each track reader, the frames it has put on the output channel
\* (those the handle took, then those still queued) are the frames it read,
\* once each and in the order read, numbered 1, 2, 3, ...; the channel never
\* holds more than buffer_size frames; and a frame that has been read and
\* is not yet queued is held by the reader waiting in send, not dropped.
C17_ReaderDelivers ==
    \A t \in SubTracks :
        LET delivered == taken[t] \o output[t] IN
        /\ \A i \in DOMAIN delivered :
              /\ delivered[i].sequence = i
              /\ delivered[i].data = frames_read[t][i]
              /\ delivered[i].track = t
        /\ Len(output[t]) <= BufferSize
        /\ reader[t].frame_count = Len(frames_read[t])
        /\ reader[t].pc \in {"select", "group"} =>
              Len(delivered) = reader[t].frame_count
        /\ reader[t].pc = "send" =>
              /\ Len(delivered) = reader[t].frame_count - 1
              /\ reader[t].frame = Some(ReceivedFrame(
                                           frames_read[t][reader[t].frame_count], t,
                                           reader[t].frame_count))

\* The video reader is suspended in send with its latest frame while the
\* channel is full with the frames before it, and the audio reader has
\* delivered a frame that the handle has taken.
C17_Witness ==
    /\ reader["video"].pc = "send"
    /\ reader["video"].frame_count = BufferSize + 1
    /\ Len(output["video"]) = BufferSize
    /\ Len(taken["audio"]) = 1
    /\ handle_open
    /\ ~cancel

\* C18: after stop(), both reader tasks terminate in the end, whatever they
\* were doing (a reader waiting on a full output channel included), and with
\* them the senders of both output channels are dropped; recv on a channel
\* that is drained and closed returns None; and a stop() on a subscription
\* that is already cancelled changes nothing.
C18_StopTerminates ==
    /\ cancel ~> (subscriber = "ended" /\ \A t \in SubTracks : Terminated(t))
    /\ [][ \A t \in SubTracks :
             (Recv(t) /\ Terminated(t) /\ output[t] = <<>>)
               => subret'.value = None ]_vars
    /\ [][ (cancel /\ Stop) =>
             UNCHANGED <<reader, output, frames_read, taken, tasks, subscriber,
                         cancel, handle_open>> ]_vars

\* The subscription was stopped while the video reader was waiting in send
\* on a full channel: the reader was aborted with its frame, the audio
\* reader has terminated too, and recv_audio has returned None.
C18_Witness ==
    /\ cancel
    /\ subscriber = "ended"
    /\ reader["video"].pc = "aborted"
    /\ Len(output["video"]) = BufferSize
    /\ reader["video"].frame_count = Len(taken["video"]) + Len(output["video"]) + 1
    /\ Terminated("audio")
    /\ subret = [op |-> "recv", track |-> "audio", value |-> None]

\* C20: in the events poll_events has returned, for every peer:
\* PeerConnected comes before every Message from the peer, the Messages
\* come in the order the peer sent them, and no Message of the connection
\* comes after its PeerDisconnected.
C20_EventOrder ==
    \A i, j \in DOMAIN polled :
        (i < j /\ polled[j].type = "Message") =>
            /\ \E k \in 1..(j - 1) :
                  polled[k] = PeerConnected(polled[j].from)
            /\ polled[i] # PeerDisconnected(polled[j].from)
            /\ (polled[i].type = "Message" /\ polled[i].from = polled[j].from)
                  => polled[i].message < polled[j].message

\* C21: the viewer's current catalog has the highest version update_catalog
\* was ever given.
C21_CatalogHighestVersion ==
    highest # None => catalog.version = highest[1]

\* TRUE iff a keyframe of the track has been sent to the viewer.
KeyframeArrived(track_name) ==
    \E i \in 1..Len(packets) :
        packets[i].track_name = track_name /\ packets[i].is_keyframe

\* C22: on a rendition change the old video track stays the active one until
\* a keyframe of the new track has arrived: the active track changes from one
\* rendition to another only when a keyframe of the new rendition has arrived.
C22_SwitchAtKeyframe ==
    [][\A old \in VideoTracks, new \in VideoTracks :
          (old # new /\ active_video_decoder = Some(old)
                     /\ active_video_decoder' = Some(new))
              => KeyframeArrived(new)']_vars

\* The qualities whose bitrate times 2 is at most the smoothed bandwidth.
Affordable ==
    {i \in 1..Len(VideoQualityAll) :
        BitrateKbps(VideoQualityAll[i]) * 2 <= stats.bandwidth_bps \div 1000}

\* C23 as stated: recommended_quality returns the lowest quality whose bitrate
\* times 2 is at most the smoothed bandwidth, or the lowest quality when
\* there is none.
C23_LowestAffordable ==
    qret.op = "recommended_quality" =>
        qret.value = IF Affordable = {} THEN VideoQualityAll[1]
                     ELSE VideoQualityAll[CHOOSE i \in Affordable :
                                             \A j \in Affordable : i <= j]

\* C23 amended: recommended_quality returns the highest quality whose bitrate
\* times 2 is at most the smoothed bandwidth in kbps, or the lowest quality
\* when there is none.
C23_HighestAffordable ==
    qret.op = "recommended_quality" =>
        qret.value = IF Affordable = {} THEN VideoQualityAll[1]
                     ELSE VideoQualityAll[CHOOSE i \in Affordable :
                                             \A j \in Affordable : j <= i]

\* recommended_quality has answered P360 and P720 is not affordable although
\* the bandwidth exceeds the plain bitrate of P720.
C23_Witness ==
    /\ qret.op = "recommended_quality"
    /\ qret.value = "P360"
    /\ stats.bandwidth_bps \div 1000 >= BitrateKbps("P720")

\* C24: groups older than max_retention are evicted at group boundaries: when
\* start_group returns, the track retains no group whose age exceeds the
\* store's max retention duration.
C24_NoGroupOlderThanRetention ==
    [][\A t \in TrackNames :
          (StartGroup(t) /\ ToPath(t) \in DOMAIN tracks) =>
              \A g \in DOMAIN tracks'[ToPath(t)].groups :
                  now' - tracks'[ToPath(t)].groups[g].created_at <= MaxRetention]_vars

\* The k-th smallest element of a set of indexes.
KthIndex(S, k) == CHOOSE i \in S : Cardinality({j \in S : j < i}) = k - 1

\* C25: drop_low_priority(threshold) removes exactly the queued items whose
\* effective priority is numerically greater than threshold, returns the
\* number removed, and leaves the remaining items in their previous order.
C25_DropLowPriority ==
    [][\A th \in Priorities :
          DropLowPriority(th) =>
              LET kept == {i \in DOMAIN pending : pending[i].effective_priority <= th}
                  dropped == {i \in DOMAIN pending : pending[i].effective_priority > th}
              IN /\ out'.value = Cardinality(dropped)
                 /\ Len(pending') = Cardinality(kept)
                 /\ \A k \in 1..Len(pending') : pending'[k] = pending[KthIndex(kept, k)]]_vars

\* drop_low_priority has removed one item and kept another.
C25_Witness ==
    /\ out.op = "drop_low_priority"
    /\ out.value = 1
    /\ Len(pending) = 1
    /\ pending[1].effective_priority <= out.threshold

\* C26: the event queue of DirectStreamingEndpoint is bounded: it never holds
\* more than a fixed number (EventCapacity) of undelivered events, however
\* long poll_events is not called.
C26_EventQueueBounded ==
    Len(events) <= EventCapacity

\* C27: ticket round trip: for every ticket t, deserialize(serialize(t))
\* succeeds and equals t.
C27_TicketRoundTrip ==
    tret.op = "deserialize" => tret.value = Ok(ticket[1])

\* A ticket whose broadcast name contains '@' has been serialized and
\* deserialized again.
C27_Witness ==
    /\ tret.op = "deserialize"
    /\ \E k \in 1..Len(ticket[1].broadcast_name) : ticket[1].broadcast_name[k] = "@"
    /\ Len(tret.input) = Len(ticket[1].broadcast_name) + 53

RECURSIVE Flatten(_)
\* The frames of a sequence of groups, in order.
Flatten(groups) ==
    IF groups = <<>> THEN <<>> ELSE Head(groups) \o Flatten(Tail(groups))

\* The keyframe intervals the fixed-interval case of C28 is checked for.
KeyframeIntervals == 1..3

\* C28: every video frame written is in a group, in the order written; every
\* keyframe is the first frame of a group and every group has one frame at
\* least; only the first group can begin with a frame that is no keyframe; so
\* frames with a keyframe every n-th frame, a multiple of n in number, give
\* groups of n frames each.
C28_KeyframeOpensGroup ==
    LET groups == video_writer.groups IN
    /\ Flatten(groups) = video_frames
    /\ \A g \in 1..Len(groups) :
          /\ Len(groups[g]) >= 1
          /\ \A k \in 2..Len(groups[g]) : ~groups[g][k].is_keyframe
          /\ g > 1 => groups[g][1].is_keyframe
    /\ video_frames # <<>> => video_writer.current_group = Some(Len(groups))
    /\ \A n \in KeyframeIntervals :
          (/\ Len(video_frames) % n = 0
           /\ \A i \in 1..Len(video_frames) :
                 video_frames[i].is_keyframe <=> (i - 1) % n = 0)
             => /\ Len(groups) = Len(video_frames) \div n
                /\ \A g \in 1..Len(groups) : Len(groups[g]) = n

\* Six frames with a keyframe every third frame have been written: two
\* groups of three frames.
C28_Witness ==
    /\ Len(video_frames) = 6
    /\ \A i \in 1..6 : video_frames[i].is_keyframe <=> (i - 1) % 3 = 0
    /\ Len(video_writer.groups) = 2

\* C29: every audio frame written is in a group, in the order written; the
\* groups start at frames 0, 20, 40, ... and every group but the last holds
\* exactly 20 frames.
C29_AudioGroupsOfTwenty ==
    LET groups == audio_writer.groups IN
    /\ Flatten(groups) = audio_frames
    /\ \A g \in 1..Len(groups) :
          /\ Len(groups[g]) >= 1
          /\ groups[g][1].pts = AudioGroupFrames * (g - 1)
          /\ g < Len(groups) => Len(groups[g]) = AudioGroupFrames

\* 41 audio frames have been written: two full groups and a third begun.
C29_Witness ==
    /\ Len(audio_frames) = 2 * AudioGroupFrames + 1
    /\ Len(audio_writer.groups) = 3

\* C30: the publisher's catalog version never decreases, and every set_video
\* and every set_audio call strictly increases it.
C30_VersionMonotonic ==
    [][/\ pcatalog'.version >= pcatalog.version
       /\ \A r \in VideoInfos : SetVideo(r) => pcatalog'.version > pcatalog.version
       /\ \A r \in AudioInfos : SetAudio(r) => pcatalog'.version > pcatalog.version]_vars

\* set_video and set_audio have both been called and the version is 2.
C30_Witness ==
    /\ pcatalog.version = 2
    /\ pcatalog.video # None
    /\ pcatalog.audio # None

\* C31: every catalog change is published: after every set_video and every
\* set_audio call the catalog channel holds a catalog carrying the new version.
C31_EveryChangePublished ==
    [][\A r \in VideoInfos \cup AudioInfos :
          (SetVideo(r) \/ SetAudio(r)) =>
              \E i \in 1..Len(catalog_rx') :
                  catalog_rx'[i].version = pcatalog'.version]_vars

\* (7 * old + sample) / 8 is what the call left in the field, and it lies
\* between the smaller and the larger of old and sample.
IsAverageOf(new, old, sample) ==
    /\ new = ExactAverage(old, sample)
    /\ LimbsLeq(old, new) \/ LimbsLeq(sample, new)
    /\ LimbsLeq(new, old) \/ LimbsLeq(new, sample)

\* C32: update_bandwidth(sample) sets bandwidth_bps to (7 * old + sample) / 8
\* and update_rtt does the same for rtt_ms, for every u64 old value and
\* sample; the new value lies between min(old, sample) and max(old, sample).
C32_MovingAverage ==
    [][\A s \in WideSamples :
          /\ UpdateBandwidthWide(s) =>
                /\ ~eret'.panicked
                /\ IsAverageOf(wide'.bandwidth_bps, wide.bandwidth_bps, s)
          /\ UpdateRttWide(s) =>
                /\ ~eret'.panicked
                /\ IsAverageOf(wide'.rtt_ms, wide.rtt_ms, s)]_vars

\* The states of the connections a peer has made, in the order stored.
AllConnections(peer) ==
    older[peer] \o (IF conn[peer] = "none" THEN <<>> ELSE <<conn[peer]>>)

\* The number of places of a sequence that hold x.
CountOf(seq, x) == Cardinality({i \in DOMAIN seq : seq[i] = x})

\* C33: when the connection to a peer closes, the endpoint eventually removes
\* the peer from its connection map and emits exactly one PeerDisconnected
\* event for that connection: every closed connection's handler ends; the
\* step that ends it leaves the peer out of the map and sends the event;
\* the PeerDisconnected events of a peer are as many as its ended connections.
C33_DisconnectedOnce ==
    /\ \A p \in DirectPeers : \A n \in 1..MaxConnections :
          (n \in DOMAIN AllConnections(p) /\ AllConnections(p)[n] = "closing")
              ~> (/\ n \in DOMAIN AllConnections(p)
                  /\ AllConnections(p)[n] = "closed")
    /\ [][\A p \in DirectPeers : \A n \in DOMAIN AllConnections(p) :
            (AllConnections(p)[n] = "closing" /\ AllConnections(p)'[n] = "closed")
                => /\ p \notin connections'
                   /\ events' = Append(events, PeerDisconnected(p))]_vars
    /\ [](\A p \in DirectPeers :
            CountOf(polled \o events, PeerDisconnected(p))
                = CountOf(AllConnections(p), "closed"))

\* A peer has connected twice, both connections have closed, and poll_events
\* has returned the two PeerDisconnected events of the peer.
C33_Witness ==
    \E p \in DirectPeers :
        /\ AllConnections(p) = <<"closed", "closed">>
        /\ p \notin connections
        /\ CountOf(polled, PeerDisconnected(p)) = 2

\* The streams of a peer whose content could not be read or decoded.
FailedStreams(peer) ==
    {i \in DOMAIN streams[peer] : streams[peer][i].state = "failed"}

\* C34: a received stream whose content is not a valid message encoding (or
\* exceeds the read limit) is reported as an Error event, and repeated
\* protocol errors from the same peer close the session: once a second
\* stream of the peer has failed, its connection is no longer open.
C34_ErrorsReported ==
    [][\A p \in DirectPeers : \A i \in StreamIndexes :
          StreamFailed(p, i) =>
              /\ Len(events') = Len(events) + 1
              /\ events'[Len(events')].type = "Error"
              /\ Cardinality(FailedStreams(p)') >= 2 => conn'[p] # "open"]_vars

\* C35: in the Live actor every remote that has an open session (a session
\* task still running) has an entry in the session map, and the closure of an
\* old session (its task joined) never removes the entry of a newer session.
C35_OpenSessionsStored ==
    /\ [](\A id \in DOMAIN session_tasks :
            session_tasks[id].state = "running"
                => session_tasks[id].remote \in DOMAIN sessions)
    /\ [][\A id \in SessionIds :
            (/\ ActorJoinNext(id)
             /\ session_tasks[id].remote \in DOMAIN sessions
             /\ sessions[session_tasks[id].remote].id # id)
                => sessions' = sessions]_vars

\* C36: the connection map of the direct endpoint holds a peer exactly when
\* the connection most recently stored for the peer is still open (a closed
\* one may stay until its handler or disconnect_peer has removed it); the end
\* of an older connection's handler never removes a newer connection of the
\* same peer; after shutdown() the map stays empty.
C36_MapHoldsOpenConnections ==
    /\ [](\A p \in DirectPeers :
            /\ conn[p] = "open" => p \in connections
            /\ p \in connections => conn[p] \in {"open", "closing"})
    /\ [][\A p \in DirectPeers : \A k \in ConnectionIndexes :
            OlderHandleConnectionClosed(p, k) => connections' = connections]_vars
    /\ [](endpoint_closed => connections = {})

\* C37: run_subscriber terminates once both track reader tasks have finished
\* (track end, track error or closed output), without stop() being called.
C37_SubscriberEndsWithTracks ==
    (\A t \in SubTracks : reader[t].pc = "done") ~> (subscriber = "ended")

\* C38: among queued items of equal effective priority the scheduler is
\* first-in first-out, whatever the objects' publisher_priority: an enqueue
\* places the new item behind every queued item of the same (or a numerically
\* smaller) effective priority and leaves the order of the others; a dequeue
\* returns the first unexpired item of the queue and leaves the order of the
\* rest.
C38_FifoAmongEqual ==
    [][/\ \A o \in SchedObjects, sp \in Priorities, ttl \in Ttls :
            Enqueue(o[1], o[2], sp, ttl) =>
                \E k \in 1..(Len(pending) + 1) :
                    /\ pending' = Trim(InsertAt(pending, k, out'.delivery))
                    /\ \A i \in 1..(k - 1) : pending[i].effective_priority <= sp
                    /\ \A i \in k..Len(pending) : pending[i].effective_priority > sp
       /\ (Dequeue /\ out'.delivery # None) =>
            LET live == {i \in DOMAIN pending : ~IsExpired(pending[i].object, now)}
            IN /\ out'.delivery = Some(pending[KthIndex(live, 1)])
               /\ Len(pending') = Cardinality(live) - 1
               /\ \A k \in 1..Len(pending') :
                     pending'[k] = pending[KthIndex(live, k + 1)]]_vars

\* Two items of one effective priority were queued, the first with the
\* numerically greater publisher_priority; dequeue has returned that one and
\* the other is still queued.
C38_Witness ==
    /\ out.op = "dequeue"
    /\ out.delivery # None
    /\ pending # <<>>
    /\ pending[1].effective_priority = out.delivery[1].effective_priority
    /\ pending[1].object.publisher_priority < out.delivery[1].object.publisher_priority

\* C39: the TrackStatus of a track always names an existing position:
\* latest_group_id is the highest started group id, and if latest_object_id
\* is Some(o) then the group latest_group_id holds an object with id o.
C39_StatusNamesPosition ==
    \A key \in DOMAIN tracks :
        LET data == tracks[key]
            status == data.status
        IN /\ status.latest_group_id =
                 (IF started[key] = <<>> THEN None
                  ELSE Some(MaxOf(Range(started[key]))))
           /\ status.latest_object_id # None =>
                 /\ status.latest_group_id # None
                 /\ status.latest_group_id[1] \in DOMAIN data.groups
                 /\ \E o \in GroupObjects(data.groups[status.latest_group_id[1]]) :
                       o.object_id = status.latest_object_id[1]

\* What the store holds for a full track name: its TrackData (groups,
\* counters and status), from which every query result is computed.
TrackOf(t) ==
    IF ToPath(t) \in DOMAIN tracks THEN Some(tracks[ToPath(t)]) ELSE None

\* C40: two different FullTrackNames always denote different tracks:
\* get_or_create_track, start_group and add_object on one never change the
\* groups, counters or status (and so the query results) of the other.
C40_NamesDenoteTracks ==
    [][\A t, u \in SlashNames :
          (/\ t # u
           /\ \/ GetOrCreateTrack(t)
              \/ StartGroup(t)
              \/ \E g \in GroupIds, s \in SubgroupIds : AddObject(t, g, s))
              => TrackOf(u)' = TrackOf(u)]_vars
====
